---- MODULE Spec2Model ----
(***************************************************************************)
(* Verification model of the ban daemon core:                              *)
(*   - JailThread (src/ban/server/jailthread.py): worker / stop / join     *)
(*   - Ticket, FailTicket (src/ban/server/ticket.py)                       *)
(*   - fail manager, ban manager, jail pump, server jail map and the       *)
(*     transmitter's set/get commands (modelled from the specification,    *)
(*     their code is not part of the source tree)                          *)
(* Each component has its own specification (SpecThread, SpecTicket, ...)  *)
(* over the shared variables; the variables of the other components are    *)
(* held at their initial value.                                            *)
(***************************************************************************)
EXTENDS Integers, Sequences, FiniteSets, TLC

VARIABLES
  \* ---- JailThread ----
  active,          \* self.active: "None" (never started), "True", "False"
  workerPc,        \* worker thread: "new", "run", "onStop", "dead"
  onStopAttr,      \* what self.onStop is bound to: "method" or "noop" (lambda:())
  doneAttr,        \* what self.done is bound to: "method" or "noop"
  onStopCalls,     \* executions of the onStop cleanup body
  afterStopCalls,  \* executions of afterStop
  hookCalls,       \* exceptions handed to excepthook
  callerPc,        \* position of each calling thread inside stop()/join()
  callerOp,        \* the call each calling thread is in: "none", "stop", "join"
  nStop,           \* stop() calls begun
  nJoin,           \* join() calls begun
  \* ---- Ticket ----
  ticketA,         \* a ticket object
  ticketB,         \* a second ticket object
  last,            \* the last operation applied: its name, arguments, result
                   \* and the receiver as it was before the call
  \* ---- ban manager of a started jail ----
  banNow,          \* MyTime.time(), a point in time
  banTime,         \* the jail's default ban time, in seconds
  banList,         \* active bans: id -> BanTicket, for the banned ids
  banLast,         \* the last ban manager operation or jail command
  \* ---- fail manager of a started jail ----
  failNow,         \* MyTime.time(), a point in time
  findTime,        \* the jail's findtime, in seconds
  maxRetry,        \* the jail's maxretry
  failList,        \* id -> FailTicket, for the ids with failures
  delivered,       \* per id: the failures delivered so far
  returned,        \* per id: the tickets toBan has returned so far
  allSingle,       \* per id: every delivery was a single failure
  firstSeen,       \* per id: the time of the first failure (None before)
  inWindow,        \* per id: every failure came within findTime of the first
  \* ---- server: the jail map ----
  jails,           \* the jails in insertion order, each with name and backend
  nAdded,          \* accepted add commands
  nRemoved,        \* jails removed by stop
  srvLast,         \* the last command on the jail map and its reply
  \* ---- transmitter: options of a jail and of the server ----
  opts,            \* the current value of each option
  optLast,         \* the last set or get command and its reply
  \* ---- IPAddr: construction and comparison ----
  ipX,             \* the arguments of the first IPAddr, ipstr and cidr
  ipY,             \* the arguments of the second IPAddr
  ipLast,          \* the operation applied to them and its result
  \* ---- IPAddrSet ----
  ipSet,           \* the elements of the set
  hasSubNet,       \* its hasSubNet attribute
  setLast,         \* the last operation on the set and its result
  \* ---- DNSUtils ----
  IPv6Attr,        \* DNSUtils._IPv6IsAllowed: None (auto), Some(TRUE), Some(FALSE)
  CACHE_nameToIp,  \* DNSUtils.CACHE_nameToIp: per key None or the cached value
  dnsEnv,          \* the host: OS capability, interface addresses, DNS data
  dnsLast,         \* the last DNSUtils call, its arguments and its result
  \* ---- FileIPAddrSet ----
  fileNow,         \* MyTime.time(), in seconds
  fileOnDisk,      \* the file: whether it exists, its stats and its contents
  fileSet,         \* the object: fileName, _nextCheck, _fileStats, its elements
  fileHist,        \* the time of the last os.stat, whether a query was made
  fileLast,        \* the last operation on the object and what it did
  \* ---- copy construction of tickets ----
  cpSrc,           \* the ticket the copy is made of
  cpCopy,          \* None, or the FailTicket made with ticket=src
  cpShared,        \* whether both hold the same dictionary in _data
  cpOps,           \* the operations made so far
  cpLast,          \* the last operation, and both objects as they were before
  \* ---- IPAddr.CACHE_OBJ ----
  CACHE_OBJ,       \* the cache of IPAddr objects: entries of key and object
  objLast,         \* the last IPAddr(ipstr, cidr) call and what it returned
  \* ---- DNSUtils.IPv6IsAllowed called from several threads ----
  v6Call,          \* per thread: the step of IPv6IsAllowed it is at, its locals
  v6Explicit,      \* the last setIPv6IsAllowed: "unset", "yes", "no", "auto"
  v6Ret            \* the last return of IPv6IsAllowed

threadVars == <<active, workerPc, onStopAttr, doneAttr, onStopCalls,
                afterStopCalls, hookCalls, callerPc, callerOp, nStop, nJoin>>

ticketVars == <<ticketA, ticketB, last>>

banVars == <<banNow, banTime, banList, banLast>>

failVars == <<failNow, findTime, maxRetry, failList, delivered, returned,
              allSingle, firstSeen, inWindow>>

srvVars == <<jails, nAdded, nRemoved, srvLast>>

optVars == <<opts, optLast>>

ipVars == <<ipX, ipY, ipLast>>

setVars == <<ipSet, hasSubNet, setLast>>

dnsVars == <<IPv6Attr, CACHE_nameToIp, dnsEnv, dnsLast>>

fileVars == <<fileNow, fileOnDisk, fileSet, fileHist, fileLast>>

copyVars == <<cpSrc, cpCopy, cpShared, cpOps, cpLast>>

objVars == <<CACHE_OBJ, objLast>>

v6Vars == <<v6Call, v6Explicit, v6Ret>>

vars == <<threadVars, ticketVars, banVars, failVars, srvVars, optVars, ipVars, setVars,
          dnsVars, fileVars, copyVars, objVars, v6Vars>>

\* what the operations of one component leave alone
notThreadVars == <<ticketVars, banVars, failVars, srvVars, optVars, ipVars, setVars,
                  dnsVars, fileVars, copyVars, objVars, v6Vars>>
notTicketVars == <<threadVars, banVars, failVars, srvVars, optVars, ipVars, setVars,
                  dnsVars, fileVars, copyVars, objVars, v6Vars>>
notBanVars == <<threadVars, ticketVars, failVars, srvVars, optVars, ipVars, setVars,
                  dnsVars, fileVars, copyVars, objVars, v6Vars>>
notFailVars == <<threadVars, ticketVars, banVars, srvVars, optVars, ipVars, setVars,
                  dnsVars, fileVars, copyVars, objVars, v6Vars>>
notSrvVars == <<threadVars, ticketVars, banVars, failVars, optVars, ipVars, setVars,
                  dnsVars, fileVars, copyVars, objVars, v6Vars>>
notOptVars == <<threadVars, ticketVars, banVars, failVars, srvVars, ipVars, setVars,
                  dnsVars, fileVars, copyVars, objVars, v6Vars>>
notIpVars == <<threadVars, ticketVars, banVars, failVars, srvVars, optVars, setVars,
                  dnsVars, fileVars, copyVars, objVars, v6Vars>>
notSetVars == <<threadVars, ticketVars, banVars, failVars, srvVars, optVars, ipVars,
                  dnsVars, fileVars, copyVars, objVars, v6Vars>>
notDnsVars == <<threadVars, ticketVars, banVars, failVars, srvVars, optVars, ipVars,
                setVars, fileVars, copyVars, objVars, v6Vars>>
notFileVars == <<threadVars, ticketVars, banVars, failVars, srvVars, optVars, ipVars,
                 setVars, dnsVars, copyVars, objVars, v6Vars>>

notCopyVars == <<threadVars, ticketVars, banVars, failVars, srvVars, optVars, ipVars, setVars, dnsVars, fileVars, objVars, v6Vars>>

notObjVars == <<threadVars, ticketVars, banVars, failVars, srvVars, optVars, ipVars, setVars, dnsVars, fileVars, copyVars, v6Vars>>

\* the threads calling IPv6IsAllowed act on the variables of DNSUtils as well
notThreadsVars == <<threadVars, ticketVars, banVars, failVars, srvVars, optVars, ipVars, setVars, fileVars, copyVars, objVars>>

(***************************************************************************)
(* Bounds                                                                  *)
(***************************************************************************)
NCallers == 2
MaxCalls == 2       \* calls of stop() and join() made by the calling threads
MaxSec == 2        \* ticket times and ban times range over 0..MaxSec seconds
MaxBanCount == 3   \* ban counts range over 0..MaxBanCount
MaxNow == 2        \* the clock of the jail runs over 0..MaxNow seconds
MaxArgs == 3       \* a banip command names up to MaxArgs ids
MaxFailures == 4   \* failures delivered for one id
MaxBatch == 3      \* failures delivered by one attempt command
MaxAdds == 4       \* accepted add commands
MaxIps == 2        \* addresses in one list given to an IPAddrSet
MaxOver == 1       \* prefix lengths run up to the IPv6 width plus MaxOver
MaxCopyOps == 3    \* operations on a ticket and its copy, the copy included

Callers == 1..NCallers

(***************************************************************************)
(* Values shared by the ticket model                                       *)
(***************************************************************************)
\* Python's None is the empty tuple, a present value v is <<v>>
None == <<>>
Some(v) == <<v>>
Val(o) == o[1]

\* Points in time are floats in the source; the model keeps them in fixed
\* point, Scale ticks to the second.  Durations (ban times) are whole seconds.
Scale == 10 * 10 * 10
Sec(n) == n * Scale

\* fractions of a second used for points in time; none of them is a tie of
\* the rounding to two decimals (x.xx5 has no exact float)
Fracs == {0, 4, 6}
TimePoints == {Sec(s) + f : s \in 0..MaxSec, f \in Fracs}
WholeTimes == {Sec(s) : s \in 0..MaxSec} \cup {4}
QueryTimes == {Sec(s) + f : s \in 0..(2 * MaxSec), f \in {0, 4}}
BanTimes == {None} \cup {Some(v) : v \in (-2)..MaxSec}
DefaultBTs == {None, Some(-1), Some(0), Some(MaxSec)}

\* round(x, 2) of a point in time, in hundredths of a second
Round2(t) == (t + 5) \div 10

\* socket.AF_UNSPEC, socket.AF_INET and IPAddr.CIDR_RAW
AF_UNSPEC == 0
AF_INET == 2
CIDR_RAW == -2

\* mutant: the prefix length is not compared
IPAddrEq_noPlen(self, other) ==
  IF self.family # other.family THEN FALSE
  ELSE IF self.family = AF_UNSPEC THEN self.raw = other.raw
  ELSE self.addr = other.addr

\* IPAddr.__eq__ for two IPAddr values
IPAddrEq(self, other) ==
  IF self.family # other.family THEN FALSE
  ELSE IF self.family = AF_UNSPEC THEN self.raw = other.raw
  ELSE self.addr = other.addr /\ self.plen = other.plen

\* the ids tickets are built with: two single IPv4 addresses and an
\* unparseable name (IPAddr.__init: family AF_UNSPEC, addr 0, plen 0)
IdPool ==
  { [family |-> AF_INET, addr |-> 1, plen |-> 32, raw |-> "0.0.0.1"],
    [family |-> AF_INET, addr |-> 2, plen |-> 32, raw |-> "0.0.0.2"],
    [family |-> AF_UNSPEC, addr |-> 0, plen |-> 0, raw |-> "Badger"] }

(***************************************************************************)
(* Ticket                                                                  *)
(***************************************************************************)
\* Ticket.MAX_TIME, in seconds (0x7FFFFFFFFFFF in the source; the model takes
\* the largest number of seconds whose tick count is a 32-bit integer)
MAX_TIME == 2147483

RESTORED == 1
BANNED == 8

\* Ticket.__init__(ip, time, matches) without data and without ticket
Ticket(ip, time, matches) ==
  [ cls      |-> "Ticket",
    id       |-> ip,
    flags    |-> 0,
    banCount |-> 0,
    banTime  |-> None,
    time     |-> time,
    data     |-> [matches |-> matches, failures |-> 0] ]

setTime(t, value) == [t EXCEPT !.time = value]
getTime(t) == t.time

setBanTime(t, value) == [t EXCEPT !.banTime = value]

getBanTime(t, defaultBT) == IF t.banTime # None THEN t.banTime ELSE defaultBT

\* mutant: the guard of setBanCount dropped
setBanCount_unguarded(t, value, always) == [t EXCEPT !.banCount = value]

setBanCount(t, value, always) ==
  IF always \/ value > t.banCount THEN [t EXCEPT !.banCount = value] ELSE t

incrBanCount(t, value) == [t EXCEPT !.banCount = t.banCount + value]

getBanCount(t) == t.banCount

\* mutant: the permanent ban time treated as a duration
getEndOfBanTime_noPermanent(t, defaultBT) ==
  LET bantime == IF t.banTime # None THEN t.banTime ELSE defaultBT
  IN  t.time + Sec(Val(bantime))

\* the end of the ban, a point in time
getEndOfBanTime(t, defaultBT) ==
  LET bantime == IF t.banTime # None THEN t.banTime ELSE defaultBT
  IN  IF Val(bantime) = -1 THEN Sec(MAX_TIME)
      ELSE t.time + Sec(Val(bantime))

\* mutant: the ticket's own ban time ignored
isTimedOut_defaultOnly(t, time, defaultBT) ==
  IF Val(defaultBT) = -1 THEN FALSE
  ELSE time > t.time + Sec(Val(defaultBT))

\* mutant: timed out already at the end of the ban
isTimedOut_atEnd(t, time, defaultBT) ==
  LET bantime == IF t.banTime # None THEN t.banTime ELSE defaultBT
  IN  IF Val(bantime) = -1 THEN FALSE
      ELSE time >= t.time + Sec(Val(bantime))

isTimedOut(t, time, defaultBT) ==
  LET bantime == IF t.banTime # None THEN t.banTime ELSE defaultBT
  IN  IF Val(bantime) = -1 THEN FALSE
      ELSE time > t.time + Sec(Val(bantime))

setAttempt(t, value) == [t EXCEPT !.data = [@ EXCEPT !.failures = value]]
getAttempt(t) == t.data.failures

\* the flag bit b (a power of two) of an integer
HasFlag(flags, b) == (flags \div b) % 2 = 1

\* the banned property's setter
setBanned(t, value) ==
  [t EXCEPT !.flags = IF value
                      THEN (IF HasFlag(@, BANNED) THEN @ ELSE @ + BANNED)
                      ELSE (IF HasFlag(@, BANNED) THEN @ - BANNED ELSE @)]

\* whether a value has the attributes __eq__ reads (_id, _time, _data)
HasTicketAttrs(o) == {"id", "time", "data"} \subseteq DOMAIN o

\* mutant: times compared without rounding
TicketEq_exactTime(self, other) ==
  IF ~HasTicketAttrs(other) THEN FALSE
  ELSE /\ IPAddrEq(self.id, other.id)
       /\ self.time = other.time
       /\ self.data = other.data

\* Ticket.__eq__; a missing attribute raises AttributeError, which gives False
TicketEq(self, other) ==
  IF ~HasTicketAttrs(other) THEN FALSE
  ELSE /\ IPAddrEq(self.id, other.id)
       /\ Round2(self.time) = Round2(other.time)
       /\ self.data = other.data

\* values that are no tickets
NonTickets == { [cls |-> "NoneType"], [cls |-> "str", raw |-> "0.0.0.1"] }

(***************************************************************************)
(* Operations on one ticket                                                *)
(***************************************************************************)
NoOp == [op |-> "none", args |-> <<>>, res |-> None, pre |-> None]

\* the ticket variables while another component is under check
TicketIdle ==
  /\ ticketA = Ticket(CHOOSE ip \in IdPool : ip.addr = 1, 0, <<>>)
  /\ ticketB = ticketA
  /\ last = NoOp

TicketInit ==
  /\ ticketA \in {Ticket(CHOOSE ip \in IdPool : ip.addr = 1, time, <<>>) :
                    time \in WholeTimes}
  /\ ticketB = ticketA
  /\ last = NoOp

DoSetTime(value) ==
  /\ ticketA' = setTime(ticketA, value)
  /\ last' = [op |-> "setTime", args |-> <<value>>, res |-> None, pre |-> ticketA]
  /\ UNCHANGED <<ticketB, notTicketVars>>

DoSetBanTime(value) ==
  /\ ticketA' = setBanTime(ticketA, value)
  /\ last' = [op |-> "setBanTime", args |-> <<value>>, res |-> None, pre |-> ticketA]
  /\ UNCHANGED <<ticketB, notTicketVars>>

DoSetBanCount(value, always) ==
  /\ ticketA' = setBanCount(ticketA, value, always)
  /\ last' = [op |-> "setBanCount", args |-> <<value, always>>, res |-> None,
              pre |-> ticketA]
  /\ UNCHANGED <<ticketB, notTicketVars>>

DoIncrBanCount ==
  /\ ticketA.banCount < MaxBanCount
  /\ ticketA' = incrBanCount(ticketA, 1)
  /\ last' = [op |-> "incrBanCount", args |-> <<1>>, res |-> None, pre |-> ticketA]
  /\ UNCHANGED <<ticketB, notTicketVars>>

\* isTimedOut needs a ban time: None + number raises TypeError
DoIsTimedOut(time, defaultBT) ==
  /\ getBanTime(ticketA, defaultBT) # None
  /\ last' = [op |-> "isTimedOut", args |-> <<time, defaultBT>>,
              res |-> isTimedOut(ticketA, time, defaultBT), pre |-> ticketA]
  /\ UNCHANGED <<ticketA, ticketB, notTicketVars>>

DoGetEndOfBanTime(defaultBT) ==
  /\ getBanTime(ticketA, defaultBT) # None
  /\ last' = [op |-> "getEndOfBanTime", args |-> <<defaultBT>>,
              res |-> getEndOfBanTime(ticketA, defaultBT), pre |-> ticketA]
  /\ UNCHANGED <<ticketA, ticketB, notTicketVars>>

TicketNext ==
  \/ \E v \in WholeTimes : DoSetTime(v)
  \/ \E v \in BanTimes : DoSetBanTime(v)
  \/ \E v \in (-1)..MaxBanCount, always \in BOOLEAN : DoSetBanCount(v, always)
  \/ DoIncrBanCount
  \/ \E t \in QueryTimes, d \in DefaultBTs : DoIsTimedOut(t, d)
  \/ \E d \in DefaultBTs : DoGetEndOfBanTime(d)

(***************************************************************************)
(* Operations on two tickets, and their comparison                         *)
(***************************************************************************)
TicketNames == {"a", "b"}
Tk(i) == IF i = "a" THEN ticketA ELSE ticketB

\* rebinding of the ticket named i, which ends the validity of the last result
Assign(i, t) ==
  /\ ticketA' = IF i = "a" THEN t ELSE ticketA
  /\ ticketB' = IF i = "b" THEN t ELSE ticketB
  /\ last' = NoOp
  /\ UNCHANGED notTicketVars

TicketEqInit ==
  /\ ticketA \in {Ticket(ip, time, <<>>) : ip \in IdPool, time \in Fracs}
  /\ ticketB \in {Ticket(ip, time, <<>>) : ip \in IdPool, time \in Fracs}
  /\ last = NoOp

EqSetTime(i, value) == Assign(i, setTime(Tk(i), value))

EqSetAttempt(i, value) == Assign(i, setAttempt(Tk(i), value))

EqSetBanTime(i, value) == Assign(i, setBanTime(Tk(i), value))

EqSetBanCount(i, value) == Assign(i, setBanCount(Tk(i), value, FALSE))

EqSetBanned(i, value) == Assign(i, setBanned(Tk(i), value))

\* i == j for two tickets
DoEq(i, j) ==
  /\ last' = [op |-> "eq", args |-> <<i, j>>, res |-> TicketEq(Tk(i), Tk(j)),
              pre |-> None]
  /\ UNCHANGED <<ticketA, ticketB, notTicketVars>>

\* i == x for a value x that is no ticket
DoEqOther(i, x) ==
  /\ last' = [op |-> "eqOther", args |-> <<i, x>>, res |-> TicketEq(Tk(i), x),
              pre |-> None]
  /\ UNCHANGED <<ticketA, ticketB, notTicketVars>>

TicketEqNext ==
  \/ \E i \in TicketNames, v \in Fracs : EqSetTime(i, v)
  \/ \E i \in TicketNames, v \in 0..1 : EqSetAttempt(i, v)
  \/ \E i \in TicketNames : EqSetBanTime(i, Some(1))
  \/ \E i \in TicketNames : EqSetBanCount(i, 1)
  \/ \E i \in TicketNames, v \in BOOLEAN : EqSetBanned(i, v)
  \/ \E i, j \in TicketNames : DoEq(i, j)
  \/ \E i \in TicketNames, x \in NonTickets : DoEqOther(i, x)


(***************************************************************************)
(* FailTicket, BanTicket                                                   *)
(***************************************************************************)
\* FailTicket.__init__(ip, time, matches) without data and without ticket:
\* the first time is the time, retry is the ticket's failures
FailTicket(ip, time, matches) ==
  LET t == Ticket(ip, time, matches)
  IN  [ cls       |-> "FailTicket",
        id        |-> t.id,
        flags     |-> t.flags,
        banCount  |-> t.banCount,
        banTime   |-> t.banTime,
        time      |-> t.time,
        data      |-> t.data,
        firstTime |-> time,
        retry     |-> t.data.failures ]

\* FailTicket.setRetry
setRetry(t, value) ==
  LET d1 == IF t.data.failures = 0 THEN [t.data EXCEPT !.failures = 1] ELSE t.data
      d2 == IF value = 0 THEN [d1 EXCEPT !.failures = 0, !.matches = <<>>] ELSE d1
  IN  [t EXCEPT !.retry = value, !.data = d2]

getRetry(t) == t.retry

\* round(num / den) of Python 3 for num >= 0 and den > 0: to the nearest
\* integer, a tie to the even one
RoundHalfEven(num, den) ==
  LET q == num \div den
      r == num % den
  IN  IF 2 * r < den THEN q
      ELSE IF 2 * r > den THEN q + 1
      ELSE IF q % 2 = 0 THEN q ELSE q + 1

\* FailTicket.adjustTime(time, maxTime), maxTime in seconds
adjustTime(t, time, maxTime) ==
  IF time > t.time
  THEN IF t.firstTime < time - Sec(maxTime)
       THEN [t EXCEPT !.retry = RoundHalfEven(t.retry * Sec(maxTime),
                                              time - t.firstTime),
                      !.firstTime = time - Sec(maxTime),
                      !.time = time]
       ELSE [t EXCEPT !.time = time]
  ELSE t

\* mutant: the retry count is not raised, only the failures are
inc_failuresOnly(t, matches, attempt, count) ==
  [t EXCEPT !.data = [@ EXCEPT !.failures = @ + attempt,
                               !.matches = IF matches # <<>> THEN @ \o matches ELSE @]]

\* mutant: the retry count goes up by one whatever the count
inc_byOne(t, matches, attempt, count) ==
  [t EXCEPT !.retry = @ + 1,
            !.data = [@ EXCEPT !.failures = @ + attempt,
                               !.matches = IF matches # <<>> THEN @ \o matches ELSE @]]

\* FailTicket.inc(matches, attempt, count)
inc(t, matches, attempt, count) ==
  [t EXCEPT !.retry = @ + count,
            !.data = [@ EXCEPT !.failures = @ + attempt,
                               !.matches = IF matches # <<>> THEN @ \o matches ELSE @]]

\* mutant: the time of the ban not taken over
BanTicket_noTime(ip, time, matches) ==
  [FailTicket(ip, 0, matches) EXCEPT !.cls = "BanTicket"]

\* BanTicket is a FailTicket of another class
BanTicket(ip, time, matches) ==
  [FailTicket(ip, time, matches) EXCEPT !.cls = "BanTicket"]

(***************************************************************************)
(* Copy construction of tickets: FailTicket(ticket=src)                    *)
(***************************************************************************)
\* self._firstTime = None is kept as -1: no point in time is negative
NoTime == -1

CopyIds == {ip \in IdPool : ip.addr = 1}
CopyTimes == {Sec(1)}
CopyMatches == {<<>>, <<"m1">>}
\* the time given to the constructor, or None; the time given to adjustTime
CtorTimes == {None, Some(Sec(3))}
AdjustTimes == {Sec(1), Sec(MaxSec), Sec(MaxSec + 2)}
\* the value of setData('user', value)
UserValues == {None, Some("alice")}
CopyNames == {"src", "copy"}

\* the sources of the copy: a Ticket or a FailTicket as its constructor
\* leaves it
CopySources ==
  {Ticket(ip, time, m) : ip \in CopyIds, time \in CopyTimes, m \in CopyMatches}
    \cup {FailTicket(ip, time, m) : ip \in CopyIds, time \in CopyTimes, m \in CopyMatches}

isFailTicket(t) == t.cls \in {"FailTicket", "BanTicket"}

\* Ticket.setMatches(matches)
setMatches(t, matches) ==
  IF matches # <<>>
  THEN [t EXCEPT !.data = [k \in DOMAIN t.data \cup {"matches"} |->
                             IF k = "matches" THEN matches ELSE t.data[k]]]
  ELSE [t EXCEPT !.data = [k \in DOMAIN t.data \ {"matches"} |-> t.data[k]]]

\* dict.update(((key, value),))
dictUpdate(d, key, value) ==
  [k \in DOMAIN d \cup {key} |-> IF k = key THEN value ELSE d[k]]

\* dict([(k, v) for k, v in d.items() if v is not None]); the values of
\* 'matches' and 'failures' are never None
dictNotNone(d) ==
  [k \in {x \in DOMAIN d : x \in {"matches", "failures"} \/ d[x] # None} |-> d[k]]

\* Ticket.setData(key, value)
setData(t, key, value) == [t EXCEPT !.data = dictNotNone(dictUpdate(t.data, key, value))]

\* FailTicket.__init__ before Ticket.update: _firstTime None, _retry 1, and
\* what Ticket.__init__ sets for ip None, no matches, the default data
blankFailTicket(time) ==
  [ cls       |-> "FailTicket",
    id        |-> None,
    flags     |-> 0,
    banCount  |-> 0,
    banTime   |-> None,
    time      |-> time,
    data      |-> [matches |-> <<>>, failures |-> 0],
    firstTime |-> NoTime,
    retry     |-> 1 ]

\* Ticket.update(ticket): every slot of Ticket.__slots__ that the ticket has
\* and that is not None; _firstTime is no slot, _lastReset is never set, and
\* a plain Ticket has no _retry
update(self, ticket) ==
  [self EXCEPT !.id = ticket.id,
               !.flags = ticket.flags,
               !.banCount = ticket.banCount,
               !.banTime = IF ticket.banTime # None THEN ticket.banTime ELSE @,
               !.time = ticket.time,
               !.data = ticket.data,
               !.retry = IF "retry" \in DOMAIN ticket THEN ticket.retry ELSE @]

\* FailTicket.__init__ after Ticket.__init__, for a ticket that is no FailTicket
initFailTicket(self, time) ==
  [self EXCEPT !.firstTime = IF time # None THEN Val(time) ELSE self.time,
               !.retry = self.data.failures]

\* FailTicket(time=time, ticket=ticket) at the time now
FailTicketCopy(time, now, ticket) ==
  IF isFailTicket(ticket)
  THEN update(blankFailTicket(IF time # None THEN Val(time) ELSE now), ticket)
  ELSE initFailTicket(update(blankFailTicket(IF time # None THEN Val(time) ELSE now),
                             ticket), time)

CopyNoOp ==
  [op |-> "none", on |-> "src", time |-> None, at |-> 0, maxTime |-> 0,
   pre |-> [src |-> None, copy |-> None], raised |-> FALSE]

CopyIdle ==
  /\ cpSrc = Ticket(CHOOSE ip \in IdPool : ip.addr = 1, Sec(1), <<>>)
  /\ cpCopy = None
  /\ cpShared = FALSE
  /\ cpOps = 0
  /\ cpLast = CopyNoOp

CopyInit ==
  /\ cpSrc \in CopySources
  /\ cpCopy = None
  /\ cpShared = FALSE
  /\ cpOps = 0
  /\ cpLast = CopyNoOp

\* the object named i
CpObj(i) == IF i = "src" THEN cpSrc ELSE Val(cpCopy)

\* the record of an operation: what both objects were before it
CopyRecord(op, i, time, at, maxTime, raised) ==
  /\ cpOps < MaxCopyOps
  /\ cpOps' = cpOps + 1
  /\ cpLast' = [op |-> op, on |-> i, time |-> time, at |-> at, maxTime |-> maxTime,
                pre |-> [src |-> Some(cpSrc), copy |-> cpCopy], raised |-> raised]

\* An operation on the object named i left it as obj; the dictionary it held
\* in _data before the call has the contents dict afterwards, and same tells
\* whether _data is still that dictionary.  The other object sees the
\* contents if its _data is the same dictionary.
CopyApply(i, obj, dict, same) ==
  /\ cpSrc' = IF i = "src" THEN obj
              ELSE IF cpShared THEN [cpSrc EXCEPT !.data = dict] ELSE cpSrc
  /\ cpCopy' = IF i = "copy" THEN Some(obj)
               ELSE IF cpShared /\ cpCopy # None
               THEN Some([Val(cpCopy) EXCEPT !.data = dict]) ELSE cpCopy
  /\ cpShared' = (cpShared /\ same)

\* an operation that changes the dictionary in place, or not at all
CopyInPlace(i, obj) == CopyApply(i, obj, obj.data, TRUE)

\* copy = FailTicket(time=time, ticket=src): update() stores the _data of src
CopyCtor(time) ==
  /\ cpCopy = None
  /\ cpCopy' = Some(FailTicketCopy(time, Sec(MaxSec + 2), cpSrc))
  /\ cpShared' = TRUE
  /\ CopyRecord("copy", "copy", time, 0, 0, FALSE)
  /\ UNCHANGED <<cpSrc, notCopyVars>>

CopyTarget(i) == i = "src" \/ cpCopy # None

CopySetAttempt(i, value) ==
  /\ CopyTarget(i)
  /\ CopyInPlace(i, setAttempt(CpObj(i), value))
  /\ CopyRecord("setAttempt", i, None, 0, 0, FALSE)
  /\ UNCHANGED notCopyVars

CopySetMatches(i, matches) ==
  /\ CopyTarget(i)
  /\ CopyInPlace(i, setMatches(CpObj(i), matches))
  /\ CopyRecord("setMatches", i, None, 0, 0, FALSE)
  /\ UNCHANGED notCopyVars

CopySetRetry(i, value) ==
  /\ CopyTarget(i)
  /\ isFailTicket(CpObj(i))
  /\ CopyInPlace(i, setRetry(CpObj(i), value))
  /\ CopyRecord("setRetry", i, None, 0, 0, FALSE)
  /\ UNCHANGED notCopyVars

CopyInc(i, matches) ==
  /\ CopyTarget(i)
  /\ isFailTicket(CpObj(i))
  /\ CopyInPlace(i, inc(CpObj(i), matches, 1, 1))
  /\ CopyRecord("inc", i, None, 0, 0, FALSE)
  /\ UNCHANGED notCopyVars

\* setData('user', value): the update changes the dictionary in place, then
\* _data becomes a new dictionary without the None values
CopySetData(i, value) ==
  /\ CopyTarget(i)
  /\ CopyApply(i, setData(CpObj(i), "user", value),
               dictUpdate(CpObj(i).data, "user", value), FALSE)
  /\ CopyRecord("setData", i, None, 0, 0, FALSE)
  /\ UNCHANGED notCopyVars

CopySetBan(i) ==
  /\ CopyTarget(i)
  /\ CpObj(i).banCount = 0
  /\ CopyInPlace(i, setBanned(setBanCount(setBanTime(CpObj(i), Some(1)), 1, FALSE), TRUE))
  /\ CopyRecord("setBan", i, None, 0, 0, FALSE)
  /\ UNCHANGED notCopyVars

\* adjustTime(time, maxTime): the comparison of _firstTime, which is None,
\* with a number raises TypeError before anything is changed
CopyAdjustTime(i, time, maxTime) ==
  /\ CopyTarget(i)
  /\ isFailTicket(CpObj(i))
  /\ CopyInPlace(i, IF time > CpObj(i).time /\ CpObj(i).firstTime = NoTime
                    THEN CpObj(i) ELSE adjustTime(CpObj(i), time, maxTime))
  /\ CopyRecord("adjustTime", i, None, time, maxTime,
                time > CpObj(i).time /\ CpObj(i).firstTime = NoTime)
  /\ UNCHANGED notCopyVars

CopyNext ==
  \/ \E time \in CtorTimes : CopyCtor(time)
  \/ \E i \in CopyNames, value \in {2} : CopySetAttempt(i, value)
  \/ \E i \in CopyNames, matches \in {<<"m2">>} : CopySetMatches(i, matches)
  \/ \E i \in CopyNames, value \in {0, 2} : CopySetRetry(i, value)
  \/ \E i \in CopyNames, matches \in {<<>>, <<"m3">>} : CopyInc(i, matches)
  \/ \E i \in CopyNames, value \in UserValues : CopySetData(i, value)
  \/ \E i \in CopyNames : CopySetBan(i)
  \/ \E i \in CopyNames, time \in AdjustTimes, maxTime \in 1..MaxSec :
       CopyAdjustTime(i, time, maxTime)

(***************************************************************************)
(* Ban manager and the jail's ban / unban steps                            *)
(***************************************************************************)
\* the ids and ban times of the ban manager model: ban times are permanent
\* (-1) or a number of seconds >= 0
BanIds == {ip \in IdPool : ip.family = AF_UNSPEC \/ ip.addr = 1}
OwnBanTimes == {None, Some(-1), Some(1)}
JailBanTimes == {Some(-1), Some(0), Some(1)}
BanClock == {Sec(s) : s \in 0..MaxNow}

\* the elements of a sequence
Range(q) == {q[k] : k \in DOMAIN q}

\* sequences of 1..n elements of S
SeqsUpTo(S, n) == UNION {[1..k -> S] : k \in 1..n}

\* the function f without the arguments in D
Without(f, D) == [x \in (DOMAIN f \ D) |-> f[x]]

BanNoOp == [op |-> "none", args |-> <<>>, res |-> None, events |-> <<>>,
            pre |-> <<>>, now |-> 0]

BanIdle ==
  /\ banNow = 0
  /\ banTime = Some(0)
  /\ banList = <<>>
  /\ banLast = BanNoOp

BanInit ==
  /\ banNow = 0
  /\ banTime \in JailBanTimes
  /\ banList = <<>>
  /\ banLast = BanNoOp

\* whether the id has a ticket in the ban list whose ban is not over
ActiveBan(bl, id, now, defaultBT) ==
  /\ id \in DOMAIN bl
  /\ ~isTimedOut(bl[id], now, defaultBT)

\* addBanTicket: rejected if the id is present and its ban not expired;
\* the ban list afterwards
addBanTicket(bl, ticket, now, defaultBT) ==
  IF ActiveBan(bl, ticket.id, now, defaultBT) THEN bl
  ELSE [x \in DOMAIN bl \cup {ticket.id} |->
          IF x = ticket.id THEN incrBanCount(ticket, 1) ELSE bl[x]]

\* addBanTicket: whether the ticket was newly banned
addBanTicketOk(bl, ticket, now, defaultBT) ==
  ~ActiveBan(bl, ticket.id, now, defaultBT)

\* unBanList: the ids of the tickets whose ban is over at the given time
unBanList(bl, now, defaultBT) ==
  {id \in DOMAIN bl : isTimedOut(bl[id], now, defaultBT)}

\* the jail bans the tickets in order: the ban list after the first n tickets
RECURSIVE BanAll(_, _, _, _)
BanAll(bl, tickets, now, defaultBT) ==
  IF tickets = <<>> THEN bl
  ELSE BanAll(addBanTicket(bl, Head(tickets), now, defaultBT),
              Tail(tickets), now, defaultBT)

\* the Ban events of the actions, one for each ticket the ban manager accepts
RECURSIVE BanEvents(_, _, _, _)
BanEvents(bl, tickets, now, defaultBT) ==
  IF tickets = <<>> THEN <<>>
  ELSE (IF addBanTicketOk(bl, Head(tickets), now, defaultBT)
        THEN <<Head(tickets).id>> ELSE <<>>)
       \o BanEvents(addBanTicket(bl, Head(tickets), now, defaultBT),
                    Tail(tickets), now, defaultBT)

\* set <JAIL> banip id1 ... idN: a BanTicket for each id at the current time,
\* banned in order; the reply is the number of tickets newly banned
CmdBanIp(ids) ==
  LET tickets == [k \in 1..Len(ids) |-> BanTicket(ids[k], banNow, <<>>)]
      events  == BanEvents(banList, tickets, banNow, banTime)
  IN  /\ banList' = BanAll(banList, tickets, banNow, banTime)
      /\ banLast' = [op |-> "banip", args |-> ids, res |-> Len(events),
                     events |-> events, pre |-> banList, now |-> banNow]
      /\ UNCHANGED <<banNow, banTime, notBanVars>>

\* a ticket with a ban time of its own (as set by the ban time increment)
\* handed to the ban manager by the jail
PutBanTicket(id, own) ==
  LET ticket == setBanTime(BanTicket(id, banNow, <<>>), own)
      ok     == addBanTicketOk(banList, ticket, banNow, banTime)
  IN  /\ banList' = addBanTicket(banList, ticket, banNow, banTime)
      /\ banLast' = [op |-> "addBanTicket", args |-> <<id, own>>, res |-> ok,
                     events |-> IF ok THEN <<id>> ELSE <<>>,
                     pre |-> banList, now |-> banNow]
      /\ UNCHANGED <<banNow, banTime, notBanVars>>

\* the jail's tick: the tickets of unBanList(now) leave the ban list and the
\* actions unban them
Tick ==
  LET gone == unBanList(banList, banNow, banTime)
  IN  /\ banList' = Without(banList, gone)
      /\ banLast' = [op |-> "unBanList", args |-> <<>>, res |-> gone,
                     events |-> <<>>, pre |-> banList, now |-> banNow]
      /\ UNCHANGED <<banNow, banTime, notBanVars>>

\* a second passes
BanClockStep ==
  /\ banNow < Sec(MaxNow)
  /\ banNow' = banNow + Sec(1)
  /\ banLast' = BanNoOp
  /\ UNCHANGED <<banTime, banList, notBanVars>>

BanNext ==
  \/ \E ids \in SeqsUpTo(BanIds, MaxArgs) : CmdBanIp(ids)
  \/ \E id \in BanIds, own \in OwnBanTimes : PutBanTicket(id, own)
  \/ Tick
  \/ BanClockStep

(***************************************************************************)
(* Fail manager and the jail's attempt step                                *)
(***************************************************************************)
FailIds == {ip \in IdPool : ip.family = AF_INET}
FailClock == {Sec(s) : s \in 0..MaxNow}

FailIdle ==
  /\ failNow = 0
  /\ findTime = 1
  /\ maxRetry = 2
  /\ failList = <<>>
  /\ delivered = [id \in FailIds |-> 0]
  /\ returned = [id \in FailIds |-> 0]
  /\ allSingle = [id \in FailIds |-> TRUE]
  /\ firstSeen = [id \in FailIds |-> None]
  /\ inWindow = [id \in FailIds |-> TRUE]

FailInit ==
  /\ failNow = 0
  /\ findTime \in 1..2
  /\ maxRetry \in 2..3
  /\ failList = <<>>
  /\ delivered = [id \in FailIds |-> 0]
  /\ returned = [id \in FailIds |-> 0]
  /\ allSingle = [id \in FailIds |-> TRUE]
  /\ firstSeen = [id \in FailIds |-> None]
  /\ inWindow = [id \in FailIds |-> TRUE]

\* addFailure(ticket, count): merged into the entry of the id (time adjusted
\* over findTime, attempts summed, retry raised by count), or inserted
addFailure(fl, ticket, count, maxTime) ==
  LET id == ticket.id
  IN  IF id \in DOMAIN fl
      THEN LET attempt == IF getAttempt(ticket) <= 0 THEN getAttempt(ticket) + 1
                          ELSE getAttempt(ticket)
               fData == inc(adjustTime(fl[id], ticket.time, maxTime),
                            ticket.data.matches, attempt, count)
           IN  [fl EXCEPT ![id] = fData]
      ELSE LET fData == IF count > getAttempt(ticket) THEN setRetry(ticket, count)
                        ELSE ticket
           IN  [x \in DOMAIN fl \cup {id} |-> IF x = id THEN fData ELSE fl[x]]

\* toBan(id): whether the ticket of the id is returned (retry >= maxRetry)
toBanOk(fl, id, maxR) == id \in DOMAIN fl /\ getRetry(fl[id]) >= maxR

\* toBan(id): the fail list afterwards, the returned ticket removed
toBan(fl, id, maxR) == IF toBanOk(fl, id, maxR) THEN Without(fl, {id}) ELSE fl

\* cleanup(now): the entries older than findTime are evicted
cleanup(fl, now, maxTime) ==
  Without(fl, {id \in DOMAIN fl : fl[id].time + Sec(maxTime) < now})

\* set <JAIL> attempt <id> <failure 1> ... <failure n>: a FailTicket with the
\* n matches is added with count n, and the id is taken by toBan when its
\* retry has reached maxRetry
CmdAttempt(id, n) ==
  LET ticket == FailTicket(id, failNow, [k \in 1..n |-> "failure"])
      count  == IF n = 0 THEN 1 ELSE n
      fl     == addFailure(failList, ticket, count, findTime)
      ban    == toBanOk(fl, id, maxRetry)
      first  == IF firstSeen[id] = None THEN failNow ELSE Val(firstSeen[id])
  IN  /\ delivered[id] + count <= MaxFailures
      /\ failList' = toBan(fl, id, maxRetry)
      /\ delivered' = [delivered EXCEPT ![id] = @ + count]
      /\ returned' = [returned EXCEPT ![id] = IF ban THEN @ + 1 ELSE @]
      /\ allSingle' = [allSingle EXCEPT ![id] = @ /\ count = 1]
      /\ firstSeen' = [firstSeen EXCEPT ![id] = Some(first)]
      /\ inWindow' = [inWindow EXCEPT ![id] = @ /\ failNow - first <= Sec(findTime)]
      /\ UNCHANGED <<failNow, findTime, maxRetry, notFailVars>>

\* the filter's periodic cleanup of the fail manager
FailCleanup ==
  /\ failList' = cleanup(failList, failNow, findTime)
  /\ UNCHANGED <<failNow, findTime, maxRetry, delivered, returned, allSingle,
                 firstSeen, inWindow, notFailVars>>

\* a second passes
FailClockStep ==
  /\ failNow < Sec(MaxNow)
  /\ failNow' = failNow + Sec(1)
  /\ UNCHANGED <<findTime, maxRetry, failList, delivered, returned, allSingle,
                 firstSeen, inWindow, notFailVars>>

FailNext ==
  \/ \E id \in FailIds, n \in 0..MaxBatch : CmdAttempt(id, n)
  \/ FailCleanup
  \/ FailClockStep

(***************************************************************************)
(* Server: the jail map behind add, stop and status                        *)
(***************************************************************************)
JailNames == {"TestJail1", "TestJail2", "TestJail3", "--all"}
Backends == {"auto", "polling", "invalid backend"}
ValidBackends == {"auto", "polling", "pyinotify", "systemd"}
RESERVED_NAME == "--all"

SrvNoOp == [cmd |-> "none", args |-> <<>>, code |-> 0, value |-> None, pre |-> <<>>]

\* the names of the jails, in the order of the map
RECURSIVE NamesOf(_)
NamesOf(q) == IF q = <<>> THEN <<>> ELSE <<Head(q).name>> \o NamesOf(Tail(q))

\* the map without the jail of the given name
RECURSIVE DelJail(_, _)
DelJail(q, name) ==
  IF q = <<>> THEN <<>>
  ELSE IF Head(q).name = name THEN Tail(q)
  ELSE <<Head(q)>> \o DelJail(Tail(q), name)

SrvIdle ==
  /\ jails = <<>>
  /\ nAdded = 0
  /\ nRemoved = 0
  /\ srvLast = SrvNoOp

SrvInit == SrvIdle

\* mutant: a duplicate name replaces nothing and is appended again
addJailOk_noDuplicateCheck(q, name, backend) ==
  /\ name # RESERVED_NAME
  /\ backend \in ValidBackends

\* addJail(name, backend): whether the jail is accepted
addJailOk(q, name, backend) ==
  /\ name # RESERVED_NAME
  /\ name \notin Range(NamesOf(q))
  /\ backend \in ValidBackends

\* add <JAIL> <BACKEND>: the reply is (0, name), or code 1 with the error
CmdAdd(name, backend) ==
  LET ok == addJailOk(jails, name, backend)
  IN  /\ nAdded < MaxAdds
      /\ jails' = IF ok THEN Append(jails, [name |-> name, backend |-> backend])
                  ELSE jails
      /\ nAdded' = IF ok THEN nAdded + 1 ELSE nAdded
      /\ srvLast' = [cmd |-> "add", args |-> <<name, backend>>,
                     code |-> IF ok THEN 0 ELSE 1,
                     value |-> IF ok THEN Some(name) ELSE None, pre |-> jails]
      /\ UNCHANGED <<nRemoved, notSrvVars>>

\* stop <JAIL>: the jail is stopped and removed from the map
CmdStop(name) ==
  LET ok == name \in Range(NamesOf(jails))
  IN  /\ jails' = DelJail(jails, name)
      /\ nRemoved' = IF ok THEN nRemoved + 1 ELSE nRemoved
      /\ srvLast' = [cmd |-> "stop", args |-> <<name>>,
                     code |-> IF ok THEN 0 ELSE 1, value |-> None, pre |-> jails]
      /\ UNCHANGED <<nAdded, notSrvVars>>

\* status: the number of jails and their names in the order of the map
CmdStatus ==
  /\ srvLast' = [cmd |-> "status", args |-> <<>>, code |-> 0,
                 value |-> <<Len(jails), NamesOf(jails)>>, pre |-> jails]
  /\ UNCHANGED <<jails, nAdded, nRemoved, notSrvVars>>

SrvNext ==
  \/ \E name \in JailNames, backend \in Backends : CmdAdd(name, backend)
  \/ \E name \in JailNames : CmdStop(name)
  \/ CmdStatus

(***************************************************************************)
(* Transmitter: set and get of the options of a jail and of the server     *)
(***************************************************************************)
\* A command value is a string; the model keeps it as its sequence of words,
\* a word being a signed number with a unit suffix ("30m": 30 with "m", "60":
\* 60 with "") or any other text.
Num(n, u) == [kind |-> "num", n |-> n, unit |-> u]
Word(w) == [kind |-> "word", w |-> w]

Inputs ==
  { <<Num(0 - 60, "")>>,                         \* "-60"
    <<Num(30, "m")>>,                            \* "30m"
    <<Num(15, "d"), Num(5, "h"), Num(30, "m")>>, \* "15d 5h 30m"
    <<Num(5, "x")>>,                             \* "5x"
    <<Word("Fish")>>,
    <<Word("yes")>>,
    <<Word("DEBUG")>> }

\* the seconds of the unit suffixes of the time interval grammar
UnitSeconds ==
  [u \in {"", "s", "m", "h", "d", "w"} |->
     CASE u = "" -> 1
       [] u = "s" -> 1
       [] u = "m" -> 60
       [] u = "h" -> 60 * 60
       [] u = "d" -> 24 * 60 * 60
       [] u = "w" -> 7 * 24 * 60 * 60]

\* mutant: a word that is no number counts as zero seconds
RECURSIVE str2seconds_lenient(_)
str2seconds_lenient(v) ==
  IF v = <<>> THEN Some(0)
  ELSE LET rest == str2seconds_lenient(Tail(v))
           h    == Head(v)
       IN  IF h.kind # "num" THEN rest
           ELSE IF h.unit \notin DOMAIN UnitSeconds THEN None
           ELSE Some(h.n * UnitSeconds[h.unit] + Val(rest))

\* the time interval parser: the sum of the words, None for a ValueError
RECURSIVE str2seconds(_)
str2seconds(v) ==
  IF v = <<>> THEN Some(0)
  ELSE LET rest == str2seconds(Tail(v))
           h    == Head(v)
       IN  IF rest = None \/ h.kind # "num" THEN None
           ELSE IF h.unit \notin DOMAIN UnitSeconds THEN None
           ELSE Some(h.n * UnitSeconds[h.unit] + Val(rest))

\* int(value): None for a ValueError
str2int(v) ==
  IF Len(v) = 1 /\ v[1].kind = "num" /\ v[1].unit = "" THEN Some(v[1].n) ELSE None

UseDnsValues == {"yes", "warn", "no", "raw"}
LogLevels == {"CRITICAL", "ERROR", "WARNING", "NOTICE", "INFO", "DEBUG",
              "TRACEDEBUG", "HEAVYDEBUG"}

\* one word that is no number, None otherwise
str2word(v) == IF Len(v) = 1 /\ v[1].kind = "word" THEN Some(v[1].w) ELSE None

Options == {"findtime", "bantime", "maxretry", "usedns", "loglevel"}

\* the value an option takes for a command value, None when the setter raises
\* an error; usedns falls back to "no" for a value it does not know
Convert(opt, v) ==
  CASE opt \in {"findtime", "bantime"} -> str2seconds(v)
    [] opt = "maxretry" -> str2int(v)
    [] opt = "usedns" ->
         IF str2word(v) # None /\ Val(str2word(v)) \in UseDnsValues
         THEN str2word(v) ELSE Some("no")
    [] opt = "loglevel" ->
         IF str2word(v) # None /\ Val(str2word(v)) \in LogLevels
         THEN str2word(v) ELSE None

OptNoOp == [cmd |-> "none", opt |-> "", arg |-> <<>>, code |-> 0,
            value |-> None, pre |-> <<>>]

OptIdle ==
  /\ opts = [findtime |-> 600, bantime |-> 600, maxretry |-> 3,
             usedns |-> "warn", loglevel |-> "INFO"]
  /\ optLast = OptNoOp

OptInit ==
  /\ opts \in [findtime : {600}, bantime : {600, 0 - 1}, maxretry : {3},
               usedns : {"warn", "no"}, loglevel : {"INFO"}]
  /\ optLast = OptNoOp

\* get <option>: the reply
GetReply(o, opt) == <<0, Some(o[opt])>>

\* set <option> <value>: the reply is (0, new value), or code 1 with the
\* error and the option left as it was
CmdSet(opt, v) ==
  LET new == Convert(opt, v)
  IN  /\ opts' = IF new = None THEN opts ELSE [opts EXCEPT ![opt] = Val(new)]
      /\ optLast' = [cmd |-> "set", opt |-> opt, arg |-> v,
                     code |-> IF new = None THEN 1 ELSE 0,
                     value |-> new, pre |-> opts]
      /\ UNCHANGED notOptVars

\* get <option>
CmdGet(opt) ==
  /\ optLast' = [cmd |-> "get", opt |-> opt, arg |-> <<>>,
                 code |-> GetReply(opts, opt)[1],
                 value |-> GetReply(opts, opt)[2], pre |-> opts]
  /\ UNCHANGED <<opts, notOptVars>>

OptNext ==
  \/ \E opt \in Options, v \in Inputs : CmdSet(opt, v)
  \/ \E opt \in Options : CmdGet(opt)

(***************************************************************************)
(* IPAddr                                                                  *)
(***************************************************************************)
\* The widths of the two address families.  The source has 32 and 128 bits;
\* the model keeps the layout on W4 and W6 bits: the IPv4-mapped network is
\* the IPv6 prefix of W6 - W4 bits that ends in a block of one bits.
W4 == 2
W6 == 5
AF_INET6 == 10
CIDR_UNSPEC == -1
FAM_IPv4 == CIDR_RAW - AF_INET
FAM_IPv6 == CIDR_RAW - AF_INET6

Ones(w) == 2^w - 1
Width(family) == IF family = AF_INET THEN W4 ELSE W6

\* the address part of ::ffff:0:0
MappedPrefix == Ones((W6 - W4) \div 2) * 2^W4

\* Strings are kept by their structure.  A host is a dotted quad ("v4"), an
\* IPv6 address in groups of hex digits ("v6hex"), an IPv6 address whose low
\* bits are written as a dotted quad ("v6dot", as in ::ffff:192.0.2.1), a
\* dotted quad with an octet out of range ("badquad", as in 999.0.0.1) or a
\* name.  A string is a host, an optional /suffix and optional brackets,
\* around the host ("host": [h]/s) or around the whole string ("all": [h/s]).
Host(kind, addr) == [kind |-> kind, addr |-> addr]
NoSuffix == [kind |-> "none", n |-> 0, mask |-> None]
PlenSuffix(n) == [kind |-> "plen", n |-> n, mask |-> None]
MaskSuffix(h) == [kind |-> "mask", n |-> 0, mask |-> Some(h)]
Str(host, suffix, bracket) == [host |-> host, suffix |-> suffix, bracket |-> bracket]
Plain(host) == Str(host, NoSuffix, "none")

\* socket.inet_pton(family, ipstr): the address, None for socket.error
inet_pton(family, ipstr) ==
  IF ipstr.suffix # NoSuffix \/ ipstr.bracket # "none" THEN None
  ELSE IF family = AF_INET /\ ipstr.host.kind = "v4" THEN Some(ipstr.host.addr)
  ELSE IF family = AF_INET6 /\ ipstr.host.kind \in {"v6hex", "v6dot"}
       THEN Some(ipstr.host.addr)
  ELSE None

\* socket.inet_ntop(family, binary): IPv4-mapped and IPv4-compatible IPv6
\* addresses are printed with a dotted quad
inet_ntop(family, addr) ==
  IF family = AF_INET THEN Host("v4", addr)
  ELSE IF \/ addr \div 2^W4 = MappedPrefix \div 2^W4
          \/ (addr \div 2^W4 = 0 /\ addr >= 2^(W4 \div 2))
       THEN Host("v6dot", addr)
  ELSE Host("v6hex", addr)

\* mutant: the host bits are kept
MaskOut_keepHostBits(addr, width, cidr) == addr

\* addr & ~(ones >> cidr) on Python's unbounded integers: the bits below the
\* prefix are cleared, and ones >> cidr is 0 for a cidr above the width
MaskOut(addr, width, cidr) ==
  LET low == IF cidr >= width THEN 0 ELSE Ones(width - cidr)
  IN  addr - (addr % (low + 1))

IPAddrValue(family, addr, plen, raw) ==
  [family |-> family, addr |-> addr, plen |-> plen, raw |-> raw]

isValid(ip) == ip.family # AF_UNSPEC
isIPv4(ip) == ip.family = AF_INET
isIPv6(ip) == ip.family = AF_INET6
isSingle(ip) ==
  IF ip.family = AF_INET THEN ip.plen = W4
  ELSE IF ip.family = AF_INET6 THEN ip.plen = W6
  ELSE ip.plen = 0 - 1000

\* IPAddr.IP6_4COMPAT, IPAddr("::ffff:0:0", 96)
IP6_4COMPAT == IPAddrValue(AF_INET6, MappedPrefix, W6 - W4, Plain(Host("v6hex", MappedPrefix)))

\* mutant: the family of the network is not looked at
isInNet_anyFamily(self, net) ==
  IF isIPv4(self) \/ isIPv6(self)
  THEN MaskOut(self.addr, Width(self.family), net.plen) = net.addr
  ELSE FALSE

\* IPAddr.isInNet for a network that is an IPAddr with an address
isInNet(self, net) ==
  IF self.family # net.family THEN FALSE
  ELSE IF isIPv4(self) \/ isIPv6(self)
  THEN MaskOut(self.addr, Width(self.family), net.plen) = net.addr
  ELSE FALSE

\* IPAddr.contains
contains(self, ip) == IPAddrEq(ip, self) \/ isInNet(ip, self)

\* IPAddr.__lt__ for two IPAddr values
IPAddrLt(self, other) == self.family < other.family \/ self.addr < other.addr

\* the first family of the list inet_pton accepts the string for
FirstFamily(families, ipstr) ==
  LET ok == {k \in DOMAIN families : inet_pton(families[k], ipstr) # None}
  IN  IF ok = {} THEN AF_UNSPEC
      ELSE families[CHOOSE k \in ok : \A j \in ok : k <= j]

\* IPAddr.__init
init(ipstr, cidr) ==
  IF cidr = CIDR_RAW THEN IPAddrValue(CIDR_RAW, 0, 0, ipstr)
  ELSE
    LET families == IF cidr < CIDR_RAW THEN <<CIDR_RAW - cidr>>
                    ELSE <<AF_INET, AF_INET6>>
        family == FirstFamily(families, ipstr)
        binary == Val(inet_pton(family, ipstr))
    IN  IF family = AF_INET
        THEN IF cidr >= 0
             THEN IPAddrValue(AF_INET, MaskOut(binary, W4, cidr), cidr, ipstr)
             ELSE IPAddrValue(AF_INET, binary, W4, ipstr)
        ELSE IF family = AF_INET6
        THEN IF cidr >= 0
             THEN IPAddrValue(AF_INET6, MaskOut(binary, W6, cidr), cidr, ipstr)
             ELSE IF isInNet(IPAddrValue(AF_INET6, binary, W6, ipstr), IP6_4COMPAT)
             THEN IPAddrValue(AF_INET, binary % 2^W4, W4, ipstr)
             ELSE IPAddrValue(AF_INET6, binary, W6, ipstr)
        ELSE IPAddrValue(AF_UNSPEC, 0, 0, ipstr)

\* IPAddr.MAP_ADDR2MASKPLEN: one table for the masks of both families, None
\* for an address that is no key of it
MAP_ADDR2MASKPLEN(addr) ==
  IF addr = Ones(W6) THEN Some(W6)
  ELSE IF addr = Ones(W4) THEN Some(W4)
  ELSE IF addr = 0 THEN Some(0)
  ELSE IF \E i \in 0..(W4 - 1) : addr = Ones(W4) - Ones(i + 1)
       THEN Some(W4 - 1 - (CHOOSE i \in 0..(W4 - 1) : addr = Ones(W4) - Ones(i + 1)))
  ELSE IF \E i \in 0..(W6 - 1) : addr = Ones(W6) - Ones(i + 1)
       THEN Some(W6 - 1 - (CHOOSE i \in 0..(W6 - 1) : addr = Ones(W6) - Ones(i + 1)))
  ELSE None

\* IPAddr.maskplen: None for the ValueError
maskplen(ip) == MAP_ADDR2MASKPLEN(ip.addr)

\* IPAddr.masktoplen(mask): IPAddr(mask).maskplen; the mask has no "/" and no
\* brackets, so IPAddr(mask) is __init with CIDR_UNSPEC
masktoplen(mask) == maskplen(init(Plain(mask), CIDR_UNSPEC))

\* the hosts IP_4_RE and IP_6_RE match
MatchesHostRE(h) == h.kind \in {"v4", "badquad", "v6hex"}

\* IPAddr.__wrap_ipstr: the string and the cidr, err for the ValueError of
\* masktoplen
wrap_ipstr(ipstr) ==
  LET strip == ipstr.bracket = "all" \/ (ipstr.bracket = "host" /\ ipstr.suffix = NoSuffix)
      s     == IF strip THEN [ipstr EXCEPT !.bracket = "none"] ELSE ipstr
      match == /\ s.bracket = "none"
               /\ MatchesHostRE(s.host)
               /\ (s.suffix.kind = "mask" => MatchesHostRE(Val(s.suffix.mask)))
  IN  IF s.suffix = NoSuffix \/ ~match
      THEN [err |-> FALSE, ipstr |-> s, cidr |-> CIDR_UNSPEC]
      ELSE IF s.suffix.kind = "plen"
      THEN [err |-> FALSE, ipstr |-> Plain(s.host), cidr |-> s.suffix.n]
      ELSE LET n == masktoplen(Val(s.suffix.mask))
           IN  IF n = None
               THEN [err |-> TRUE, ipstr |-> s, cidr |-> CIDR_UNSPEC]
               ELSE [err |-> FALSE, ipstr |-> Plain(s.host), cidr |-> Val(n)]

\* the keys IPAddr.__new__ leaves in CACHE_OBJ besides the one of its result:
\* the mask that masktoplen has built
MaskKeys(ipstr) ==
  LET strip == ipstr.bracket = "all"
  IN  IF /\ ipstr.suffix.kind = "mask"
         /\ (ipstr.bracket = "none" \/ strip)
         /\ MatchesHostRE(ipstr.host)
         /\ MatchesHostRE(Val(ipstr.suffix.mask))
      THEN {<<Plain(Val(ipstr.suffix.mask)), CIDR_UNSPEC>>}
      ELSE {}

\* IPAddr.__new__(ipstr, cidr) on an empty cache: the IPAddr, or err for the
\* ValueError, and the keys set in CACHE_OBJ
IPAddr(ipstr, cidr) ==
  IF cidr = CIDR_RAW
  THEN [err |-> FALSE, ip |-> Some(init(ipstr, cidr)), cached |-> {}]
  ELSE IF cidr = CIDR_UNSPEC
  THEN LET w == wrap_ipstr(ipstr)
       IN  IF w.err
           THEN [err |-> TRUE, ip |-> None, cached |-> MaskKeys(ipstr)]
           ELSE [err |-> FALSE, ip |-> Some(init(w.ipstr, w.cidr)),
                 cached |-> MaskKeys(ipstr) \cup {<<w.ipstr, w.cidr>>}]
  ELSE [err |-> FALSE, ip |-> Some(init(ipstr, cidr)), cached |-> {<<ipstr, cidr>>}]

\* IPAddr.ntoa
ntoa(ip) ==
  IF isIPv4(ip) \/ isIPv6(ip)
  THEN Str(inet_ntop(ip.family, ip.addr),
           IF ip.plen # 0 /\ ip.plen < Width(ip.family) THEN PlenSuffix(ip.plen)
           ELSE NoSuffix,
           "none")
  ELSE ip.raw

\* IPAddr.__hash__: hash(self.ntoa); the hash of a string is kept as the
\* string, two different strings have different hashes
IPAddrHash(ip) == ntoa(ip)

\* set.__contains__, the direct lookup: an element with the hash of ip that
\* is equal to ip
HasElem(S, ip) == \E e \in S : IPAddrHash(e) = IPAddrHash(ip) /\ IPAddrEq(e, ip)

\* ---- the strings and arguments IPAddr is built from ----
Hosts4 == {Host("v4", a) : a \in 0..Ones(W4)}
Hosts6Hex == {Host("v6hex", a) : a \in 0..Ones(W6)}
Hosts6Dot == {Host("v6dot", a) : a \in {b \in 0..Ones(W6) : inet_ntop(AF_INET6, b).kind = "v6dot"}}
Names == {Host("name", 0), Host("name", 1)}
BadQuad == Host("badquad", 0)
Hosts == Hosts4 \cup Hosts6Hex \cup Hosts6Dot \cup Names \cup {BadQuad}
Plens == 0..(W6 + MaxOver)
Suffixes ==
  {PlenSuffix(n) : n \in Plens} \cup {MaskSuffix(h) : h \in Hosts4 \cup Hosts6Hex \cup {BadQuad}}
Args(ipstr, cidr) == [ipstr |-> ipstr, cidr |-> cidr]

CtorArgs ==
  {Args(Str(h, NoSuffix, br), c) : h \in Hosts, br \in {"none", "all"},
      c \in {CIDR_UNSPEC, CIDR_RAW, FAM_IPv4, FAM_IPv6} \cup Plens}
  \cup {Args(Str(h, sfx, br), CIDR_UNSPEC) :
          h \in Hosts, sfx \in Suffixes, br \in {"none", "host", "all"}}

RelPlens4 == 0..W4
RelPlens6 == {0, W6 - W4, W6 - 1}
RelArgs ==
  {Args(Plain(h), CIDR_UNSPEC) : h \in Hosts4 \cup Hosts6Hex \cup Names}
  \cup {Args(Str(h, PlenSuffix(n), "none"), CIDR_UNSPEC) : h \in Hosts4, n \in RelPlens4}
  \cup {Args(Str(h, PlenSuffix(n), "none"), CIDR_UNSPEC) : h \in Hosts6Hex, n \in RelPlens6}
  \cup {Args(Plain(h), CIDR_RAW) : h \in Names}

IpNoOp == [op |-> "none", a |-> None, b |-> None, res |-> None, rev |-> None]
NoArgs == Args(Plain(Host("name", 0)), CIDR_RAW)

IpIdle ==
  /\ ipX = NoArgs
  /\ ipY = NoArgs
  /\ ipLast = IpNoOp

\* one IPAddr is built, from any string and cidr
IpInit ==
  /\ ipX \in CtorArgs
  /\ ipY = NoArgs
  /\ ipLast = IpNoOp

\* two IPAddr are built
IpRelInit ==
  /\ ipX \in RelArgs
  /\ ipY \in RelArgs
  /\ ipLast = IpNoOp

NewX == IPAddr(ipX.ipstr, ipX.cidr)
NewY == IPAddr(ipY.ipstr, ipY.cidr)

\* IPAddr(ipstr, cidr)
DoNew ==
  /\ ipLast.op = "none"
  /\ ipLast' = [IpNoOp EXCEPT !.op = "new", !.a = Some(NewX)]
  /\ UNCHANGED <<ipX, ipY, notIpVars>>

\* IPAddr(IPAddr(ipstr, cidr).ntoa)
DoNtoa ==
  /\ ipLast.op = "none"
  /\ ~NewX.err
  /\ ipLast' = [IpNoOp EXCEPT !.op = "ntoa", !.a = Some(NewX),
                  !.res = Some(ntoa(Val(NewX.ip))),
                  !.b = Some(IPAddr(ntoa(Val(NewX.ip)), CIDR_UNSPEC))]
  /\ UNCHANGED <<ipX, ipY, notIpVars>>

IpNext ==
  \/ DoNew
  \/ DoNtoa

\* the result of an operation on the two IPAddr
Rel(op, res, rev) ==
  /\ ipLast.op = "none"
  /\ ipLast' = [op |-> op, a |-> NewX.ip, b |-> NewY.ip, res |-> Some(res),
                rev |-> Some(rev)]
  /\ UNCHANGED <<ipX, ipY, notIpVars>>

\* a == b, and b == a
DoIpEq == Rel("eq", IPAddrEq(Val(NewX.ip), Val(NewY.ip)), IPAddrEq(Val(NewY.ip), Val(NewX.ip)))

\* a != b (IPAddr.__ne__), and a == b
DoIpNe == Rel("ne", ~IPAddrEq(Val(NewX.ip), Val(NewY.ip)), IPAddrEq(Val(NewX.ip), Val(NewY.ip)))

\* a < b, and b < a
DoIpLt == Rel("lt", IPAddrLt(Val(NewX.ip), Val(NewY.ip)), IPAddrLt(Val(NewY.ip), Val(NewX.ip)))

\* a.contains(b), and b.contains(a)
DoContains == Rel("contains", contains(Val(NewX.ip), Val(NewY.ip)), contains(Val(NewY.ip), Val(NewX.ip)))

\* hash(a) == hash(b), and set.__contains__(IPAddrSet([a]), b)
DoIpHash ==
  Rel("hash", IPAddrHash(Val(NewX.ip)) = IPAddrHash(Val(NewY.ip)),
      HasElem({Val(NewX.ip)}, Val(NewY.ip)))

IpRelNext ==
  \/ DoIpHash
  \/ DoIpEq
  \/ DoIpNe
  \/ DoIpLt
  \/ DoContains

SetNoOp == [op |-> "none", args |-> <<>>, res |-> None]

SetIdle ==
  /\ ipSet = {}
  /\ hasSubNet = 0
  /\ setLast = SetNoOp

(***************************************************************************)
(* IPAddr.__new__ with CACHE_OBJ                                           *)
(***************************************************************************)
\* The arguments IPAddr is called with: strings whose wrapped form is the key
\* of another one (a /plen or a /mask suffix, brackets), a mask that is no
\* mask, a name, a forced family, and raw values.
ObjArgs ==
  { Args(Plain(Host("v4", 3)), CIDR_UNSPEC),
    Args(Plain(Host("v4", 3)), 1),
    Args(Str(Host("v4", 3), PlenSuffix(1), "none"), CIDR_UNSPEC),
    Args(Str(Host("v4", 3), MaskSuffix(Host("v4", 2)), "none"), CIDR_UNSPEC),
    Args(Str(Host("v4", 3), MaskSuffix(Host("v4", 1)), "none"), CIDR_UNSPEC),
    Args(Plain(Host("v4", 2)), CIDR_UNSPEC),
    Args(Str(Host("v6hex", 9), NoSuffix, "all"), CIDR_UNSPEC),
    Args(Plain(Host("v6hex", 9)), CIDR_UNSPEC),
    Args(Plain(Host("v6dot", MappedPrefix + 3)), CIDR_UNSPEC),
    Args(Plain(Host("v4", 3)), FAM_IPv6),
    Args(Plain(Host("name", 0)), CIDR_UNSPEC),
    Args(Plain(Host("name", 0)), CIDR_RAW),
    Args(Plain(Host("v4", 3)), CIDR_RAW) }

ObjNoOp == [op |-> "none", args |-> NoArgs, err |-> FALSE, ip |-> None, hit |-> FALSE]

\* CACHE_OBJ: the entries, each a key (ipstr, cidr) and the object under it
ObjIdle ==
  /\ CACHE_OBJ = {}
  /\ objLast = ObjNoOp

ObjInit == ObjIdle

\* CACHE_OBJ.get(args): None, or the object
objGet(cache, ipstr, cidr) ==
  IF \E e \in cache : e.ipstr = ipstr /\ e.cidr = cidr
  THEN Some((CHOOSE e \in cache : e.ipstr = ipstr /\ e.cidr = cidr).ip)
  ELSE None

\* CACHE_OBJ.set(args, ip)
objSet(cache, ipstr, cidr, ip) ==
  {e \in cache : ~(e.ipstr = ipstr /\ e.cidr = cidr)}
    \cup {[ipstr |-> ipstr, cidr |-> cidr, ip |-> ip]}

\* mutant: the object is stored under the string without its cidr
newObj_keyWithoutCidr(cache, ipstr, cidr, ip) ==
  [err |-> FALSE, ip |-> Some(ip), hit |-> FALSE,
   cache |-> IF ip.family # CIDR_RAW THEN objSet(cache, ipstr, CIDR_UNSPEC, ip) ELSE cache]

\* __new__: ip.__init(ipstr, cidr), then CACHE_OBJ.set(args, ip) unless the
\* family is CIDR_RAW
newObj(cache, ipstr, cidr, ip) ==
  [err |-> FALSE, ip |-> Some(ip), hit |-> FALSE,
   cache |-> IF ip.family # CIDR_RAW THEN objSet(cache, ipstr, cidr, ip) ELSE cache]

\* __new__ from the look into the cache on: the object found, or a new one
getOrNew(cache, ipstr, cidr, found) ==
  IF found # None
  THEN [err |-> FALSE, ip |-> found, hit |-> TRUE, cache |-> cache]
  ELSE newObj(cache, ipstr, cidr, init(ipstr, cidr))

\* __new__ for a string that __wrap_ipstr leaves without a cidr: no second
\* look into the cache
newUnwrapped(cache, ipstr) == newObj(cache, ipstr, CIDR_UNSPEC, init(ipstr, CIDR_UNSPEC))

\* masktoplen: IPAddr(mask) for the mask of the string, a host without
\* brackets and without "/", through the cache
newMask(cache, mask) ==
  IF objGet(cache, mask, CIDR_UNSPEC) # None
  THEN [err |-> FALSE, ip |-> objGet(cache, mask, CIDR_UNSPEC), hit |-> TRUE,
        cache |-> cache]
  ELSE newUnwrapped(cache, mask)

\* __new__ after __wrap_ipstr has found a mask and masktoplen has built the
\* IPAddr m of it: the ValueError of maskplen, or the prefix length
newWithMask(host, m) ==
  IF maskplen(Val(m.ip)) = None
  THEN [err |-> TRUE, ip |-> None, hit |-> FALSE, cache |-> m.cache]
  ELSE getOrNew(m.cache, Plain(host), Val(maskplen(Val(m.ip))),
                objGet(m.cache, Plain(host), Val(maskplen(Val(m.ip)))))

\* __new__ after __wrap_ipstr, which needed no mask
newWrapped(cache, w) ==
  IF w.cidr # CIDR_UNSPEC
  THEN getOrNew(cache, w.ipstr, w.cidr, objGet(cache, w.ipstr, w.cidr))
  ELSE newUnwrapped(cache, w.ipstr)

\* IPAddr.__new__(ipstr, cidr) with the cache as it is: the IPAddr (or err for
\* the ValueError), whether it came out of the cache, and the cache afterwards
IPAddrNew(cache, ipstr, cidr) ==
  IF cidr = CIDR_RAW
  THEN [err |-> FALSE, ip |-> Some(init(ipstr, cidr)), hit |-> FALSE, cache |-> cache]
  ELSE IF objGet(cache, ipstr, cidr) # None
  THEN [err |-> FALSE, ip |-> objGet(cache, ipstr, cidr), hit |-> TRUE, cache |-> cache]
  ELSE IF cidr # CIDR_UNSPEC
  THEN newObj(cache, ipstr, cidr, init(ipstr, cidr))
  ELSE IF MaskKeys(ipstr) # {}
  THEN newWithMask(ipstr.host, newMask(cache, Plain(Val(ipstr.suffix.mask))))
  ELSE newWrapped(cache, wrap_ipstr(ipstr))

\* what a call leaves behind
ObjReturn(args, r) ==
  /\ CACHE_OBJ' = r.cache
  /\ objLast' = [op |-> "new", args |-> args, err |-> r.err, ip |-> r.ip, hit |-> r.hit]

\* a call IPAddr(ipstr, cidr)
ObjNew(args) ==
  /\ ObjReturn(args, IPAddrNew(CACHE_OBJ, args.ipstr, args.cidr))
  /\ UNCHANGED notObjVars

\* an entry leaves the cache: it is older than maxTime, or it is dropped to
\* keep the cache within maxCount
ObjExpire ==
  /\ \E e \in CACHE_OBJ : CACHE_OBJ' = CACHE_OBJ \ {e}
  /\ objLast' = ObjNoOp
  /\ UNCHANGED notObjVars

ObjNext ==
  \/ \E args \in ObjArgs : ObjNew(args)
  \/ ObjExpire

(***************************************************************************)
(* IPAddrSet                                                               *)
(***************************************************************************)
\* the IPv4 addresses and networks the sets are filled with: two single
\* addresses and the two networks that hold one of them each
SetStrs ==
  {Plain(Host("v4", a)) : a \in {1, 2^(W4 - 1)}}
  \cup {Str(Host("v4", a), PlenSuffix(W4 - 1), "none") : a \in {0, 2^(W4 - 1)}}

\* IPAddr(ip) for a string of the pool
ToIPAddr(ipstr) == Val(IPAddr(ipstr, CIDR_UNSPEC).ip)

\* set.add
AddElem(S, ip) == IF HasElem(S, ip) THEN S ELSE S \cup {ip}

\* IPAddrSet._list2set: the set of the list and the number of entries of the
\* list that are not single addresses
RECURSIVE _list2set(_)
_list2set(ips) ==
  IF ips = <<>> THEN [ips |-> {}, subnet |-> 0]
  ELSE LET rest == _list2set(SubSeq(ips, 1, Len(ips) - 1))
           ip   == ToIPAddr(ips[Len(ips)])
       IN  [ips |-> AddElem(rest.ips, ip),
            subnet |-> rest.subnet + (IF isSingle(ip) THEN 0 ELSE 1)]

\* set.update
RECURSIVE UpdateAll(_, _)
UpdateAll(S, T) ==
  IF T = {} THEN S
  ELSE LET e == CHOOSE x \in T : TRUE
       IN  UpdateAll(AddElem(S, e), T \ {e})

\* int | bool
BitOr1(n, b) == IF b /\ n % 2 = 0 THEN n + 1 ELSE n

\* IPAddrSet.__contains__
SetContains(S, subnet, ip) ==
  HasElem(S, ip) \/ (subnet # 0 /\ \E n \in S : contains(n, ip))

SetInit == SetIdle

\* IPAddrSet(ips): the constructor
SetCtor(ips) ==
  /\ ipSet' = _list2set(ips).ips
  /\ hasSubNet' = _list2set(ips).subnet
  /\ setLast' = [op |-> "init", args |-> ips, res |-> None]
  /\ UNCHANGED notSetVars

\* IPAddrSet.set(ips)
SetSet(ips) ==
  /\ ipSet' = UpdateAll({}, _list2set(ips).ips)
  /\ hasSubNet' = _list2set(ips).subnet
  /\ setLast' = [op |-> "set", args |-> ips, res |-> None]
  /\ UNCHANGED notSetVars

\* IPAddrSet.add(ip)
SetAdd(ipstr) ==
  /\ hasSubNet' = BitOr1(hasSubNet, ~isSingle(ToIPAddr(ipstr)))
  /\ ipSet' = AddElem(ipSet, ToIPAddr(ipstr))
  /\ setLast' = [op |-> "add", args |-> <<ipstr>>, res |-> None]
  /\ UNCHANGED notSetVars

\* ips |= IPAddrSet(other), as in DNSUtils.getSelfIPs: set.__ior__
SetIor(other) ==
  /\ ipSet' = UpdateAll(ipSet, _list2set(other).ips)
  /\ setLast' = [op |-> "ior", args |-> other, res |-> None]
  /\ UNCHANGED <<hasSubNet, notSetVars>>

\* ip in S
SetIn(ipstr) ==
  /\ setLast' = [op |-> "in", args |-> <<ipstr>>,
                 res |-> Some(SetContains(ipSet, hasSubNet, ToIPAddr(ipstr)))]
  /\ UNCHANGED <<ipSet, hasSubNet, notSetVars>>

SetNext ==
  \/ \E ips \in SeqsUpTo(SetStrs, MaxIps) \cup {<<>>} : SetCtor(ips)
  \/ \E ips \in SeqsUpTo(SetStrs, MaxIps) \cup {<<>>} : SetSet(ips)
  \/ \E ipstr \in SetStrs : SetAdd(ipstr)
  \/ \E other \in SeqsUpTo(SetStrs, MaxIps) \cup {<<>>} : SetIor(other)
  \/ \E ipstr \in SetStrs : SetIn(ipstr)

(***************************************************************************)
(* DNSUtils: IPv6IsAllowed, dnsToIp, textToIp                              *)
(***************************************************************************)
\* the host's own name (localhost, the hostname) and a name of another host
SelfName == Host("name", 0)
OtherName == Host("name", 1)

\* the texts given to textToIp: a name, an IPv4 address, an IPv6 address in
\* brackets, an IPv6 address written with a dotted quad, and a dotted quad
\* with an octet out of range
DnsTexts ==
  { Plain(OtherName),
    Plain(Host("v4", 2)),
    Str(Host("v6hex", 9), NoSuffix, "host"),
    Plain(Host("v6dot", MappedPrefix + 1)),
    Plain(BadQuad) }

\* the names dnsToIp is called with: by the caller, and by getSelfIPs
DnsNames == {Plain(OtherName)}
DnsKeys == DnsTexts \cup DnsNames \cup {Plain(SelfName)}

UseDns == {"yes", "warn", "no"}

\* The hosts the model runs on: what _IPv6IsSupportedBySystem finds (None
\* when it cannot tell), the addresses of the network interfaces, and
\* whether the own name resolves to an IPv6 address as well.
DnsEnvs ==
  { [sys |-> Some(TRUE),  intrf |-> {}, selfV6 |-> TRUE],
    [sys |-> Some(FALSE), intrf |-> {}, selfV6 |-> TRUE],
    [sys |-> None, intrf |-> {ToIPAddr(Plain(Host("v4", 1))),
                              ToIPAddr(Plain(Host("v6hex", 9)))}, selfV6 |-> TRUE],
    [sys |-> None, intrf |-> {ToIPAddr(Plain(Host("v4", 1)))}, selfV6 |-> TRUE],
    [sys |-> None, intrf |-> {}, selfV6 |-> TRUE],
    [sys |-> None, intrf |-> {}, selfV6 |-> FALSE] }

\* CACHE_nameToIp with nothing in it: the entries of the names, and those of
\* the keys ('netintrf','ips'), ('self','ips') and ('self','ipv6-allowed')
EmptyCache ==
  [names |-> [t \in DnsKeys |-> None], intrf |-> None, self |-> None, ipv6 |-> None]

DnsNoOp ==
  [op |-> "none", text |-> Plain(SelfName), useDns |-> "no", attr |-> None,
   cached |-> None, ans |-> None, ips |-> {}, looked |-> FALSE,
   detected |-> FALSE, raised |-> FALSE]

DnsIdle ==
  /\ IPv6Attr = None
  /\ CACHE_nameToIp = EmptyCache
  /\ dnsEnv = [sys |-> Some(TRUE), intrf |-> {}, selfV6 |-> TRUE]
  /\ dnsLast = DnsNoOp

\* DNSUtils._IPv6IsAllowed = None, the caches empty
DnsInit ==
  /\ IPv6Attr = None
  /\ CACHE_nameToIp = EmptyCache
  /\ dnsEnv \in DnsEnvs
  /\ dnsLast = DnsNoOp

\* socket.getaddrinfo(dns, None, fam, ...): the address strings, the empty
\* set for the socket error.  A name resolves by the DNS data of the host, a
\* numeric address of the family to itself.
getaddrinfo(env, dns, fam) ==
  IF dns = Plain(SelfName)
  THEN IF fam = AF_INET THEN {Host("v4", 1)}
       ELSE IF env.selfV6 THEN {Host("v6hex", 1)} ELSE {}
  ELSE IF dns = Plain(OtherName)
  THEN IF fam = AF_INET THEN {Host("v4", 2)} ELSE {Host("v6hex", 9)}
  ELSE IF inet_pton(fam, dns) # None
  THEN {inet_ntop(fam, Val(inet_pton(fam, dns)))}
  ELSE {}

\* dnsToIp: the loop over the families, the valid addresses of the results
lookup(env, dns, allowed) ==
  UpdateAll({}, {ip \in UNION {{Val(IPAddr(Plain(h), CIDR_RAW - fam).ip) :
                                  h \in getaddrinfo(env, dns, fam)} :
                               fam \in IF allowed THEN {AF_INET, AF_INET6}
                                       ELSE {AF_INET}} :
                   isValid(ip)})

\* dnsToIp: CACHE_nameToIp.set(dns, ips); return ips
cacheSet(cache, dns, ips) ==
  [res |-> ips, cache |-> [cache EXCEPT !.names[dns] = Some(ips)]]

\* dnsToIp past the cache
resolve(env, cache, dns, allowed) == cacheSet(cache, dns, lookup(env, dns, allowed))

\* dnsToIp while IPv6IsAllowed() is known to answer `allowed`
dnsToIpWith(env, cache, dns, allowed) ==
  IF cache.names[dns] # None
  THEN [res |-> Val(cache.names[dns]), cache |-> cache]
  ELSE resolve(env, cache, dns, allowed)

\* DNSUtils.getNetIntrfIPs
getNetIntrfIPs(env, cache) ==
  IF cache.intrf # None
  THEN [res |-> Val(cache.intrf), cache |-> cache]
  ELSE [res |-> env.intrf, cache |-> [cache EXCEPT !.intrf = Some(env.intrf)]]

\* getSelfIPs: CACHE_nameToIp.set(_getSelfIPs_key, ips); return ips
selfSet(cache, ips) == [res |-> ips, cache |-> [cache EXCEPT !.self = Some(ips)]]

\* getSelfIPs: ips |= IPAddrSet(dnsToIp(hostname)) for the own name
selfByName(ips, d) == selfSet(d.cache, UpdateAll(ips, d.res))

\* getSelfIPs past getNetIntrfIPs
selfByIntrf(env, n) ==
  selfByName(n.res, dnsToIpWith(env, n.cache, Plain(SelfName), TRUE))

\* DNSUtils.getSelfIPs as IPv6IsAllowed calls it, with _IPv6IsAllowed set to
\* True for the time of the call
getSelfIPs(env, cache) ==
  IF cache.self # None
  THEN [res |-> Val(cache.self), cache |-> cache]
  ELSE selfByIntrf(env, getNetIntrfIPs(env, cache))

\* ':' in ip.ntoa
HasColon(ip) == ntoa(ip).host.kind \in {"v6hex", "v6dot"}

\* IPv6IsAllowed: v = any(':' in ip.ntoa for ip in ips), cached and returned
detectedBy(r) ==
  [res |-> Some(\E ip \in r.res : HasColon(ip)), attr |-> None,
   cache |-> [r.cache EXCEPT !.ipv6 = Some(\E ip \in r.res : HasColon(ip))],
   detected |-> TRUE]

\* IPv6IsAllowed past getNetIntrfIPs: by the interface addresses, or by the
\* own addresses if there are none; when getSelfIPs raises, the finally
\* clause has set _IPv6IsAllowed to None
detectByIPs(env, raises, n) ==
  IF n.res # {} THEN detectedBy(n)
  ELSE IF raises
  THEN [res |-> None, attr |-> None, cache |-> n.cache, detected |-> TRUE]
  ELSE detectedBy(getSelfIPs(env, n.cache))

\* mutant: the cached detection result is looked at before the setting
IPv6IsAllowed_cacheFirst(env, attr, cache, raises) ==
  IF cache.ipv6 # None
  THEN [res |-> cache.ipv6, attr |-> attr, cache |-> cache, detected |-> FALSE]
  ELSE IF attr # None
  THEN [res |-> attr, attr |-> attr, cache |-> cache, detected |-> FALSE]
  ELSE [res |-> Some(FALSE), attr |-> attr,
        cache |-> [cache EXCEPT !.ipv6 = Some(FALSE)], detected |-> TRUE]

\* DNSUtils.IPv6IsAllowed: the answer (None when getSelfIPs raised, which the
\* model lets happen in a direct call only), the setting and the cache
\* afterwards, and whether the detection ran
IPv6IsAllowed(env, attr, cache, raises) ==
  IF attr # None
  THEN [res |-> attr, attr |-> attr, cache |-> cache, detected |-> FALSE]
  ELSE IF cache.ipv6 # None
  THEN [res |-> cache.ipv6, attr |-> attr, cache |-> cache, detected |-> FALSE]
  ELSE IF env.sys # None
  THEN [res |-> env.sys, attr |-> attr,
        cache |-> [cache EXCEPT !.ipv6 = env.sys], detected |-> TRUE]
  ELSE detectByIPs(env, raises, getNetIntrfIPs(env, cache))

\* dnsToIp: the result after IPv6IsAllowed answered a and the lookup gave r
resolved(a, r) ==
  [res |-> r.res, attr |-> a.attr, cache |-> r.cache,
   detected |-> a.detected, raised |-> FALSE]

\* dnsToIp past the cache, IPv6IsAllowed having answered a
dnsToIpAllowed(env, dns, a) ==
  IF a.res = None
  THEN [res |-> {}, attr |-> a.attr, cache |-> a.cache,
        detected |-> a.detected, raised |-> TRUE]
  ELSE resolved(a, resolve(env, a.cache, dns, Val(a.res)))

\* DNSUtils.dnsToIp(dns)
dnsToIp(env, attr, cache, dns, raises) ==
  IF cache.names[dns] # None
  THEN [res |-> Val(cache.names[dns]), attr |-> attr, cache |-> cache,
        detected |-> FALSE, raised |-> FALSE]
  ELSE dnsToIpAllowed(env, dns, IPv6IsAllowed(env, attr, cache, raises))

\* IPAddr.searchIP(text): IP_4_6_CRE matches a dotted quad, or groups of hex
\* digits with or without brackets; None otherwise
searchIP(text) ==
  IF text.suffix # NoSuffix THEN None
  ELSE IF text.host.kind \in {"v4", "badquad"} /\ text.bracket = "none"
  THEN Some(Plain(text.host))
  ELSE IF text.host.kind = "v6hex" THEN Some(Plain(text.host))
  ELSE None

\* textToIp: if ip.isValid: ipList.add(ip)
validOnly(ip) == IF isValid(ip) THEN {ip} ELSE {}

\* textToIp: the plain IP of the text, if searchIP found one and it is valid
plainIPs(plainIP) ==
  IF plainIP = None THEN {}
  ELSE validOnly(Val(IPAddr(Val(plainIP), CIDR_UNSPEC).ip))

\* textToIp: ipList.update(dnsToIp(text))
lookedUp(ipList, d) ==
  [res |-> UpdateAll(ipList, d.res), attr |-> d.attr, cache |-> d.cache,
   looked |-> TRUE, detected |-> d.detected, raised |-> d.raised]

\* textToIp past the search for a plain IP
textToIpFound(env, attr, cache, text, useDns, raises, ipList) ==
  IF useDns \in {"yes", "warn"} /\ ipList = {}
  THEN lookedUp(ipList, dnsToIp(env, attr, cache, text, raises))
  ELSE [res |-> ipList, attr |-> attr, cache |-> cache,
        looked |-> FALSE, detected |-> FALSE, raised |-> FALSE]

\* DNSUtils.textToIp(text, useDns)
textToIp(env, attr, cache, text, useDns, raises) ==
  textToIpFound(env, attr, cache, text, useDns, raises, plainIPs(searchIP(text)))

\* set allowipv6 <value>: DNSUtils.setIPv6IsAllowed(True, False or None)
AllowIPv6Values == {"yes", "no", "auto"}
AllowIPv6Attr(value) ==
  IF value = "yes" THEN Some(TRUE) ELSE IF value = "no" THEN Some(FALSE) ELSE None

CmdSetAllowIPv6(value) ==
  /\ IPv6Attr' = AllowIPv6Attr(value)
  /\ dnsLast' = [DnsNoOp EXCEPT !.op = "set", !.useDns = value, !.attr = IPv6Attr,
                                !.cached = CACHE_nameToIp.ipv6]
  /\ UNCHANGED <<CACHE_nameToIp, dnsEnv, notDnsVars>>

\* what a call leaves behind: the setting, the cache and the record of the call
DnsReturn(op, text, useDns, ans, ips, looked, raised, r) ==
  /\ IPv6Attr' = r.attr
  /\ CACHE_nameToIp' = r.cache
  /\ dnsLast' = [op |-> op, text |-> text, useDns |-> useDns, attr |-> IPv6Attr,
                 cached |-> CACHE_nameToIp.ipv6, ans |-> ans, ips |-> ips,
                 looked |-> looked, detected |-> r.detected, raised |-> raised]

IPv6IsAllowedReturn(a) ==
  DnsReturn("IPv6IsAllowed", Plain(SelfName), "no", a.res, {}, FALSE, a.res = None, a)

dnsToIpReturn(dns, d) ==
  DnsReturn("dnsToIp", dns, "no", None, d.res, TRUE, d.raised, d)

textToIpReturn(text, useDns, t) ==
  DnsReturn("textToIp", text, useDns, None, t.res, t.looked, t.raised, t)

\* a call of DNSUtils.IPv6IsAllowed()
DoIPv6IsAllowed(raises) ==
  /\ IPv6IsAllowedReturn(IPv6IsAllowed(dnsEnv, IPv6Attr, CACHE_nameToIp, raises))
  /\ UNCHANGED <<dnsEnv, notDnsVars>>

\* a call of DNSUtils.dnsToIp(dns)
DoDnsToIp(dns) ==
  /\ dnsToIpReturn(dns, dnsToIp(dnsEnv, IPv6Attr, CACHE_nameToIp, dns, FALSE))
  /\ UNCHANGED <<dnsEnv, notDnsVars>>

\* a call of DNSUtils.textToIp(text, useDns)
DoTextToIp(text, useDns) ==
  /\ textToIpReturn(text, useDns,
                    textToIp(dnsEnv, IPv6Attr, CACHE_nameToIp, text, useDns, FALSE))
  /\ UNCHANGED <<dnsEnv, notDnsVars>>

\* the entries of CACHE_nameToIp reach their maximal age
DnsCacheExpire ==
  /\ CACHE_nameToIp # EmptyCache
  /\ CACHE_nameToIp' = EmptyCache
  /\ dnsLast' = DnsNoOp
  /\ UNCHANGED <<IPv6Attr, dnsEnv, notDnsVars>>

DnsNext ==
  \/ \E value \in AllowIPv6Values : CmdSetAllowIPv6(value)
  \/ \E raises \in BOOLEAN : DoIPv6IsAllowed(raises)
  \/ \E dns \in DnsNames : DoDnsToIp(dns)
  \/ \E text \in DnsTexts, useDns \in UseDns : DoTextToIp(text, useDns)
  \/ DnsCacheExpire

(***************************************************************************)
(* IPv6IsAllowed and setIPv6IsAllowed called from several threads          *)
(***************************************************************************)
\* DNSUtils has no lock: each read or write of DNSUtils._IPv6IsAllowed and of
\* the cache is a step of its own, and the threads interleave between them.
V6Idle == [pc |-> "idle", v |-> FALSE, raised |-> FALSE, under |-> "void"]
V6NoRet == [by |-> 0, under |-> "void", res |-> None]

ThreadsIdle ==
  /\ v6Call = [c \in Callers |-> V6Idle]
  /\ v6Explicit = "unset"
  /\ v6Ret = V6NoRet

\* a thread is at the step pc of IPv6IsAllowed
V6At(c, pc) == v6Call[c].pc = pc

\* the thread goes on to the step pc
V6Goto(c, pc) ==
  /\ v6Call' = [v6Call EXCEPT ![c] = [@ EXCEPT !.pc = pc]]
  /\ UNCHANGED <<v6Explicit, v6Ret>>

\* the thread goes on to store the value v
V6Found(c, v) ==
  /\ v6Call' = [v6Call EXCEPT ![c] = [@ EXCEPT !.pc = "store", !.v = v]]
  /\ UNCHANGED <<v6Explicit, v6Ret>>

\* IPv6IsAllowed returns res (None when the exception of getSelfIPs leaves it)
V6Return(c, res) ==
  /\ v6Call' = [v6Call EXCEPT ![c] = V6Idle]
  /\ v6Ret' = [by |-> c, under |-> v6Call[c].under, res |-> res]
  /\ UNCHANGED v6Explicit

\* setIPv6IsAllowed(value), one assignment; the calls of IPv6IsAllowed in
\* progress have not started after it
V6Set(value) ==
  /\ IPv6Attr' = AllowIPv6Attr(value)
  /\ v6Explicit' = value
  /\ v6Call' = [c \in Callers |-> [v6Call[c] EXCEPT !.under = "void"]]
  /\ UNCHANGED <<CACHE_nameToIp, dnsEnv, dnsLast, v6Ret, notThreadsVars>>

\* a thread enters IPv6IsAllowed()
V6Call(c) ==
  /\ V6At(c, "idle")
  /\ v6Call' = [v6Call EXCEPT ![c] = [V6Idle EXCEPT !.pc = "attr", !.under = v6Explicit]]
  /\ UNCHANGED <<IPv6Attr, CACHE_nameToIp, dnsEnv, dnsLast, v6Explicit, v6Ret,
                 notThreadsVars>>

\* if DNSUtils._IPv6IsAllowed is not None: return DNSUtils._IPv6IsAllowed
V6Attr(c) ==
  /\ V6At(c, "attr")
  /\ IF IPv6Attr # None THEN V6Return(c, IPv6Attr) ELSE V6Goto(c, "cache")
  /\ UNCHANGED <<IPv6Attr, CACHE_nameToIp, dnsEnv, dnsLast, notThreadsVars>>

\* v = CACHE_nameToIp.get(_IPv6IsAllowed_key); if v is not None: return v
V6Cache(c) ==
  /\ V6At(c, "cache")
  /\ IF CACHE_nameToIp.ipv6 # None THEN V6Return(c, CACHE_nameToIp.ipv6)
     ELSE V6Goto(c, "system")
  /\ UNCHANGED <<IPv6Attr, CACHE_nameToIp, dnsEnv, dnsLast, notThreadsVars>>

\* v = _IPv6IsSupportedBySystem()
V6System(c) ==
  /\ V6At(c, "system")
  /\ IF dnsEnv.sys # None THEN V6Found(c, Val(dnsEnv.sys)) ELSE V6Goto(c, "intrf")
  /\ UNCHANGED <<IPv6Attr, CACHE_nameToIp, dnsEnv, dnsLast, notThreadsVars>>

\* ips = getNetIntrfIPs(); with addresses v = any(':' in ip.ntoa for ip in ips)
V6Intrf(c) ==
  /\ V6At(c, "intrf")
  /\ CACHE_nameToIp' = getNetIntrfIPs(dnsEnv, CACHE_nameToIp).cache
  /\ IF dnsEnv.intrf # {} THEN V6Found(c, \E ip \in dnsEnv.intrf : HasColon(ip))
     ELSE V6Goto(c, "setTrue")
  /\ UNCHANGED <<IPv6Attr, dnsEnv, dnsLast, notThreadsVars>>

\* DNSUtils._IPv6IsAllowed = True
V6SetTrue(c) ==
  /\ V6At(c, "setTrue")
  /\ IPv6Attr' = Some(TRUE)
  /\ V6Goto(c, "self")
  /\ UNCHANGED <<CACHE_nameToIp, dnsEnv, dnsLast, notThreadsVars>>

\* what getSelfIPs has found, or that it raised
V6Self(c, r, raises) ==
  /\ CACHE_nameToIp' = IF raises THEN CACHE_nameToIp ELSE r.cache
  /\ v6Call' = [v6Call EXCEPT ![c] =
                  [@ EXCEPT !.pc = "finally",
                            !.v = ~raises /\ \E ip \in r.res : HasColon(ip),
                            !.raised = raises]]
  /\ UNCHANGED <<v6Explicit, v6Ret>>

\* ips = getSelfIPs(): its dnsToIp resolves IPv6 as well unless the setting
\* has been switched off in the meantime
V6SelfIPs(c, raises) ==
  /\ V6At(c, "self")
  /\ V6Self(c, selfByName(getNetIntrfIPs(dnsEnv, CACHE_nameToIp).res,
                          dnsToIpWith(dnsEnv, CACHE_nameToIp, Plain(SelfName),
                                      IPv6Attr # Some(FALSE))),
            raises)
  /\ UNCHANGED <<IPv6Attr, dnsEnv, dnsLast, notThreadsVars>>

\* finally: DNSUtils._IPv6IsAllowed = None
V6Finally(c) ==
  /\ V6At(c, "finally")
  /\ IPv6Attr' = None
  /\ IF v6Call[c].raised THEN V6Return(c, None) ELSE V6Goto(c, "store")
  /\ UNCHANGED <<CACHE_nameToIp, dnsEnv, dnsLast, notThreadsVars>>

\* CACHE_nameToIp.set(_IPv6IsAllowed_key, v); return v
V6Store(c) ==
  /\ V6At(c, "store")
  /\ CACHE_nameToIp' = [CACHE_nameToIp EXCEPT !.ipv6 = Some(v6Call[c].v)]
  /\ V6Return(c, Some(v6Call[c].v))
  /\ UNCHANGED <<IPv6Attr, dnsEnv, dnsLast, notThreadsVars>>

\* the entries of CACHE_nameToIp reach their maximal age
V6CacheExpire ==
  /\ CACHE_nameToIp # EmptyCache
  /\ CACHE_nameToIp' = EmptyCache
  /\ UNCHANGED <<IPv6Attr, dnsEnv, dnsLast, v6Call, v6Explicit, v6Ret, notThreadsVars>>

ThreadsNext ==
  \/ \E value \in AllowIPv6Values : V6Set(value)
  \/ \E c \in Callers : V6Call(c)
  \/ \E c \in Callers : V6Attr(c)
  \/ \E c \in Callers : V6Cache(c)
  \/ \E c \in Callers : V6System(c)
  \/ \E c \in Callers : V6Intrf(c)
  \/ \E c \in Callers : V6SetTrue(c)
  \/ \E c \in Callers, raises \in BOOLEAN : V6SelfIPs(c, raises)
  \/ \E c \in Callers : V6Finally(c)
  \/ \E c \in Callers : V6Store(c)
  \/ V6CacheExpire

(***************************************************************************)
(* FileIPAddrSet                                                           *)
(***************************************************************************)
MaxFileNow == 3    \* the clock of the file set runs over 1..MaxFileNow seconds
MaxFileVer == 2    \* the file goes through the versions 0..MaxFileVer
MaxFileErrors == 1 \* failed loads of one file set

\* FileIPAddrSet.maxUpdateLatency, in seconds
maxUpdateLatency == 1
\* load: self._nextCheck += 60 after an error
ErrorLatency == 60

\* The file's (st_mtime, st_ino, st_size) is kept as the number of its
\* version; every write gives another one.  The words of each version:
FileIps(ver) ==
  IF ver = 0 THEN <<Plain(Host("v4", 1))>>
  ELSE IF ver = 1
  THEN <<Plain(Host("v4", 1)), Str(Host("v4", 2^(W4 - 1)), PlenSuffix(W4 - 1), "none")>>
  ELSE <<>>

\* the addresses asked for: one of every version of the file, one of the
\* network of version 1 only
FileQueries == {Plain(Host("v4", a)) : a \in {1, 2^(W4 - 1) + 1}}

\* the class attributes: fileName = '', _nextCheck = 0, _fileStats = ()
FileObjNew ==
  [fileName |-> None, _nextCheck |-> 0, _fileStats |-> None, ips |-> {}, hasSubNet |-> 0]

FileNoOp ==
  [op |-> "none", forced |-> FALSE, statted |-> FALSE, read |-> FALSE,
   prevStat |-> None, prevStats |-> None, first |-> FALSE, existed |-> FALSE,
   readable |-> FALSE, at |-> 0, diskStats |-> 0, noError |-> TRUE, failed |-> FALSE,
   prevIps |-> {}, raised |-> FALSE, res |-> None]

FileIdle ==
  /\ fileNow = 1
  /\ fileOnDisk = [exists |-> TRUE, readable |-> TRUE, stats |-> 0]
  /\ fileSet = FileObjNew
  /\ fileHist = [lastStat |-> None, touched |-> FALSE]
  /\ fileLast = FileNoOp

\* before FileIPAddrSet(fileName) is called; the file may be there or not,
\* and a file that is there may be one the process is not allowed to read
FileInit ==
  /\ fileNow = 1
  /\ fileOnDisk \in {d \in [exists : BOOLEAN, readable : BOOLEAN, stats : {0}] :
                       ~d.exists => d.readable}
  /\ fileSet = FileObjNew
  /\ fileHist = [lastStat |-> None, touched |-> FALSE]
  /\ fileLast = FileNoOp

\* mutant: a check is made again when exactly maxUpdateLatency has passed
_isModified_atLatency(obj, disk, tm) ==
  IF tm < obj._nextCheck
  THEN [obj |-> obj, res |-> "None", statted |-> FALSE]
  ELSE LET o1 == [obj EXCEPT !._nextCheck = tm + maxUpdateLatency]
       IN  IF ~disk.exists
           THEN [obj |-> o1, res |-> "raise", statted |-> TRUE]
           ELSE IF o1._fileStats # Some(disk.stats)
           THEN [obj |-> [o1 EXCEPT !._fileStats = Some(disk.stats)],
                 res |-> "True", statted |-> TRUE]
           ELSE [obj |-> o1, res |-> "False", statted |-> TRUE]

\* FileIPAddrSet._isModified at time tm: None (no check), True, False, or the
\* OSError of os.stat for a missing file
_isModified(obj, disk, tm) ==
  IF tm <= obj._nextCheck
  THEN [obj |-> obj, res |-> "None", statted |-> FALSE]
  ELSE LET o1 == [obj EXCEPT !._nextCheck = tm + maxUpdateLatency]
       IN  IF ~disk.exists
           THEN [obj |-> o1, res |-> "raise", statted |-> TRUE]
           ELSE IF o1._fileStats # Some(disk.stats)
           THEN [obj |-> [o1 EXCEPT !._fileStats = Some(disk.stats)],
                 res |-> "True", statted |-> TRUE]
           ELSE [obj |-> o1, res |-> "False", statted |-> TRUE]

\* load: self.set(...) with the addresses read from the file
reloaded(obj, statted, ips) ==
  [obj |-> [obj EXCEPT !.ips = UpdateAll({}, ips.ips), !.hasSubNet = ips.subnet],
   statted |-> statted, read |-> TRUE, failed |-> FALSE, raised |-> FALSE]

\* open(self.fileName, 'r') raises: no such file, or permission denied
openFails(disk) == ~disk.exists \/ ~disk.readable

\* load past _isModified, which answered m
loadModified(m, disk, forceReload, noError) ==
  IF m.res = "raise" \/ ((m.res = "True" \/ forceReload) /\ openFails(disk))
  THEN [obj |-> [m.obj EXCEPT !._nextCheck = @ + ErrorLatency],
        statted |-> m.statted, read |-> FALSE, failed |-> TRUE, raised |-> ~noError]
  ELSE IF m.res = "True" \/ forceReload
  THEN reloaded(m.obj, m.statted, _list2set(FileIps(disk.stats)))
  ELSE [obj |-> m.obj, statted |-> m.statted, read |-> FALSE, failed |-> FALSE,
        raised |-> FALSE]

\* FileIPAddrSet.load(forceReload, noError): the object afterwards, whether
\* the file was stat'ed and read, whether the exception was raised again
load(obj, disk, tm, forceReload, noError) ==
  loadModified(_isModified(obj, disk, tm), disk, forceReload, noError)

\* the failed loads so far stay within the bound
FileErrorsOk(obj) ==
  obj._nextCheck <= MaxFileNow + maxUpdateLatency + MaxFileErrors * ErrorLatency

\* what an operation leaves in fileHist and fileLast
FileRecord(op, forced, noError, l, res) ==
  /\ fileHist' = [lastStat |-> IF l.statted THEN Some(fileNow) ELSE fileHist.lastStat,
                  touched |-> TRUE]
  /\ fileLast' = [op |-> op, forced |-> forced, statted |-> l.statted, read |-> l.read,
                  prevStat |-> fileHist.lastStat, prevStats |-> fileSet._fileStats,
                  first |-> ~fileHist.touched, existed |-> fileOnDisk.exists,
                  readable |-> fileOnDisk.readable,
                  at |-> fileNow, diskStats |-> fileOnDisk.stats,
                  noError |-> noError, failed |-> l.failed, prevIps |-> fileSet.ips,
                  raised |-> l.raised, res |-> res]

\* FileIPAddrSet(fileName)
FileCtor ==
  /\ fileSet.fileName = None
  /\ fileSet' = [fileSet EXCEPT !.fileName = Some("ignore.txt")]
  /\ fileLast' = [FileNoOp EXCEPT !.op = "init", !.existed = fileOnDisk.exists]
  /\ UNCHANGED <<fileNow, fileOnDisk, fileHist, notFileVars>>

\* what a load leaves behind: the object and the record of the operation
FileReturn(op, forced, noError, ipstr, l) ==
  /\ FileErrorsOk(l.obj)
  /\ fileSet' = l.obj
  /\ FileRecord(op, forced, noError, l,
                IF ipstr = None THEN None
                ELSE Some(SetContains(l.obj.ips, l.obj.hasSubNet, ToIPAddr(Val(ipstr)))))

\* ip in fileSet
FileContains(ipstr) ==
  /\ fileSet.fileName # None
  /\ FileReturn("contains", FALSE, TRUE, Some(ipstr),
                load(fileSet, fileOnDisk, fileNow, FALSE, TRUE))
  /\ UNCHANGED <<fileNow, fileOnDisk, notFileVars>>

\* fileSet.load(forceReload, noError)
FileLoad(forceReload, noError) ==
  /\ fileSet.fileName # None
  /\ FileReturn("load", forceReload, noError, None,
                load(fileSet, fileOnDisk, fileNow, forceReload, noError))
  /\ UNCHANGED <<fileNow, fileOnDisk, notFileVars>>

\* the file is written: other contents, other stats
FileWrite ==
  /\ fileOnDisk.stats < MaxFileVer
  /\ fileOnDisk' = [fileOnDisk EXCEPT !.exists = TRUE, !.stats = @ + 1]
  /\ UNCHANGED <<fileNow, fileSet, fileHist, fileLast, notFileVars>>

\* the file is removed
FileRemove ==
  /\ fileOnDisk.exists
  /\ fileOnDisk' = [fileOnDisk EXCEPT !.exists = FALSE]
  /\ UNCHANGED <<fileNow, fileSet, fileHist, fileLast, notFileVars>>

\* the file is there again as it was (moved back, its volume mounted again)
FileRestore ==
  /\ ~fileOnDisk.exists
  /\ fileOnDisk' = [fileOnDisk EXCEPT !.exists = TRUE]
  /\ UNCHANGED <<fileNow, fileSet, fileHist, fileLast, notFileVars>>

\* the permissions of the file change: the contents and the
\* (st_mtime, st_ino, st_size) triple stay as they are
FileChmod ==
  /\ fileOnDisk.exists
  /\ fileOnDisk' = [fileOnDisk EXCEPT !.readable = ~@]
  /\ UNCHANGED <<fileNow, fileSet, fileHist, fileLast, notFileVars>>

\* the time a failed load has postponed the next check by passes
FilePostponed ==
  /\ fileSet._nextCheck - fileNow > maxUpdateLatency
  /\ fileNow' = fileSet._nextCheck + 1
  /\ UNCHANGED <<fileOnDisk, fileSet, fileHist, fileLast, notFileVars>>

\* a second passes
FileTick ==
  /\ fileNow < MaxFileNow
  /\ fileNow' = fileNow + 1
  /\ UNCHANGED <<fileOnDisk, fileSet, fileHist, fileLast, notFileVars>>

FileNext ==
  \/ FileCtor
  \/ \E ipstr \in FileQueries : FileContains(ipstr)
  \/ \E forceReload \in BOOLEAN, noError \in BOOLEAN : FileLoad(forceReload, noError)
  \/ FileWrite
  \/ FileRemove
  \/ FileRestore
  \/ FileChmod
  \/ FileTick
  \/ FilePostponed

(***************************************************************************)
(* JailThread                                                              *)
(***************************************************************************)
ThreadInit ==
  /\ active = "None"
  /\ workerPc = "new"
  /\ onStopAttr = "method"
  /\ doneAttr = "method"
  /\ onStopCalls = 0
  /\ afterStopCalls = 0
  /\ hookCalls = 0
  /\ callerPc = [c \in Callers |-> "idle"]
  /\ callerOp = [c \in Callers |-> "none"]
  /\ nStop = 0
  /\ nJoin = 0

\* Thread.is_alive(): started and not yet ended
is_alive == workerPc \in {"run", "onStop"}

\* JailThread.start: self.active = True; Thread.start()
start ==
  /\ workerPc = "new"
  /\ active' = "True"
  /\ workerPc' = "run"
  /\ UNCHANGED <<onStopAttr, doneAttr, onStopCalls, afterStopCalls, hookCalls,
                 callerPc, callerOp, nStop, nJoin,
                 notThreadVars>>

\* mutant: the run loop does not test the flag and keeps running
RunLoopExit_ignoresFlag ==
  /\ workerPc = "run"
  /\ active = "False"
  /\ workerPc' = "run"
  /\ UNCHANGED <<active, onStopAttr, doneAttr, onStopCalls, afterStopCalls,
                 hookCalls, callerPc, callerOp, nStop, nJoin,
                 notThreadVars>>

\* run() leaves its loop because the active flag is False
RunLoopExit ==
  /\ workerPc = "run"
  /\ active = "False"
  /\ workerPc' = "onStop"
  /\ UNCHANGED <<active, onStopAttr, doneAttr, onStopCalls, afterStopCalls,
                 hookCalls, callerPc, callerOp, nStop, nJoin,
                 notThreadVars>>

\* run() returns on its own while the flag is still set
RunReturn ==
  /\ workerPc = "run"
  /\ active = "True"
  /\ workerPc' = "onStop"
  /\ UNCHANGED <<active, onStopAttr, doneAttr, onStopCalls, afterStopCalls,
                 hookCalls, callerPc, callerOp, nStop, nJoin,
                 notThreadVars>>

\* mutant: the exception of run is swallowed without calling the except hook
RunRaise_noHook ==
  /\ workerPc = "run"
  /\ workerPc' = "dead"
  /\ UNCHANGED <<active, onStopAttr, doneAttr, onStopCalls, afterStopCalls,
                 hookCalls, callerPc, callerOp, nStop, nJoin,
                 notThreadVars>>

\* run() raises: the except branch hands the exception to excepthook,
\* self.onStop() of the try body is skipped, and the thread ends
RunRaise ==
  /\ workerPc = "run"
  /\ hookCalls' = hookCalls + 1
  /\ workerPc' = "dead"
  /\ UNCHANGED <<active, onStopAttr, doneAttr, onStopCalls, afterStopCalls,
                 callerPc, callerOp, nStop, nJoin,
                 notThreadVars>>

\* the call self.onStop(): runs the cleanup body unless the attribute has
\* been rebound to the empty lambda
OnStopCall(n) == IF onStopAttr = "method" THEN n + 1 ELSE n

\* run_with_except_hook, after run returned: self.onStop(), then the thread ends
WorkerOnStop ==
  /\ workerPc = "onStop"
  /\ onStopCalls' = OnStopCall(onStopCalls)
  /\ workerPc' = "dead"
  /\ UNCHANGED <<active, onStopAttr, doneAttr, afterStopCalls, hookCalls,
                 callerPc, callerOp, nStop, nJoin,
                 notThreadVars>>

\* a thread enters stop()
CallStop(c) ==
  /\ callerPc[c] = "idle"
  /\ nStop + nJoin < MaxCalls
  /\ nStop' = nStop + 1
  /\ callerPc' = [callerPc EXCEPT ![c] = "stop_flag"]
  /\ callerOp' = [callerOp EXCEPT ![c] = "stop"]
  /\ UNCHANGED <<active, workerPc, onStopAttr, doneAttr, onStopCalls,
                 afterStopCalls, hookCalls, nJoin,
                 notThreadVars>>

\* stop: if self.active: self.active = False
StopFlag(c) ==
  /\ callerPc[c] = "stop_flag"
  /\ active' = IF active = "True" THEN "False" ELSE active
  /\ callerPc' = [callerPc EXCEPT ![c] = "stop_onStop"]
  /\ UNCHANGED <<workerPc, onStopAttr, doneAttr, onStopCalls, afterStopCalls,
                 hookCalls, callerOp, nStop, nJoin,
                 notThreadVars>>

\* stop: self.onStop()
StopOnStop(c) ==
  /\ callerPc[c] = "stop_onStop"
  /\ onStopCalls' = OnStopCall(onStopCalls)
  /\ callerPc' = [callerPc EXCEPT ![c] = "stop_rebind"]
  /\ UNCHANGED <<active, workerPc, onStopAttr, doneAttr, afterStopCalls,
                 hookCalls, callerOp, nStop, nJoin,
                 notThreadVars>>

\* mutant: stop() forgets to rebind onStop
StopRebind_keepsMethod(c) ==
  /\ callerPc[c] = "stop_rebind"
  /\ callerPc' = [callerPc EXCEPT ![c] = "done_enter"]
  /\ UNCHANGED <<active, workerPc, onStopAttr, doneAttr, onStopCalls, afterStopCalls,
                 hookCalls, callerOp, nStop, nJoin,
                 notThreadVars>>

\* stop: self.onStop = lambda:()
StopRebind(c) ==
  /\ callerPc[c] = "stop_rebind"
  /\ onStopAttr' = "noop"
  /\ callerPc' = [callerPc EXCEPT ![c] = "done_enter"]
  /\ UNCHANGED <<active, workerPc, doneAttr, onStopCalls, afterStopCalls,
                 hookCalls, callerOp, nStop, nJoin,
                 notThreadVars>>

\* where a caller continues when self.done() has returned
AfterDone(c) == IF callerOp[c] = "join" THEN "join_check" ELSE "idle"

\* stop / join: the call self.done(); the empty lambda returns at once
DoneEnter(c) ==
  /\ callerPc[c] = "done_enter"
  /\ callerPc' = [callerPc EXCEPT ![c] =
                    IF doneAttr = "method" THEN "done_rebind" ELSE AfterDone(c)]
  /\ callerOp' = [callerOp EXCEPT ![c] =
                    IF doneAttr = "method" \/ callerOp[c] = "join"
                    THEN callerOp[c] ELSE "none"]
  /\ UNCHANGED <<active, workerPc, onStopAttr, doneAttr, onStopCalls,
                 afterStopCalls, hookCalls, nStop, nJoin,
                 notThreadVars>>

\* done: self.done = lambda:()
DoneRebind(c) ==
  /\ callerPc[c] = "done_rebind"
  /\ doneAttr' = "noop"
  /\ callerPc' = [callerPc EXCEPT ![c] = "done_wait"]
  /\ UNCHANGED <<active, workerPc, onStopAttr, onStopCalls, afterStopCalls,
                 hookCalls, callerOp, nStop, nJoin,
                 notThreadVars>>

\* done: if self.is_alive(): Utils.wait_for(lambda: not self.is_alive(), 5)
\* returns when the worker has ended or when the five seconds have passed
DoneWait(c) ==
  /\ callerPc[c] = "done_wait"
  /\ callerPc' = [callerPc EXCEPT ![c] = "done_afterStop"]
  /\ UNCHANGED <<active, workerPc, onStopAttr, doneAttr, onStopCalls,
                 afterStopCalls, hookCalls, callerOp, nStop, nJoin,
                 notThreadVars>>

\* done: self.afterStop()
DoneAfterStop(c) ==
  /\ callerPc[c] = "done_afterStop"
  /\ afterStopCalls' = afterStopCalls + 1
  /\ callerPc' = [callerPc EXCEPT ![c] = AfterDone(c)]
  /\ callerOp' = [callerOp EXCEPT ![c] =
                    IF callerOp[c] = "join" THEN "join" ELSE "none"]
  /\ UNCHANGED <<active, workerPc, onStopAttr, doneAttr, onStopCalls,
                 hookCalls, nStop, nJoin,
                 notThreadVars>>

\* a thread enters join(): self.done() comes first
CallJoin(c) ==
  /\ callerPc[c] = "idle"
  /\ nStop + nJoin < MaxCalls
  /\ nJoin' = nJoin + 1
  /\ callerPc' = [callerPc EXCEPT ![c] = "done_enter"]
  /\ callerOp' = [callerOp EXCEPT ![c] = "join"]
  /\ UNCHANGED <<active, workerPc, onStopAttr, doneAttr, onStopCalls,
                 afterStopCalls, hookCalls, nStop,
                 notThreadVars>>

\* join: if self.active is not None: Thread.join()
JoinCheck(c) ==
  /\ callerPc[c] = "join_check"
  /\ callerPc' = [callerPc EXCEPT ![c] =
                    IF active # "None" THEN "join_wait" ELSE "idle"]
  /\ callerOp' = [callerOp EXCEPT ![c] =
                    IF active # "None" THEN "join" ELSE "none"]
  /\ UNCHANGED <<active, workerPc, onStopAttr, doneAttr, onStopCalls,
                 afterStopCalls, hookCalls, nStop, nJoin,
                 notThreadVars>>

\* Thread.join() returns once the worker has ended
JoinWait(c) ==
  /\ callerPc[c] = "join_wait"
  /\ workerPc = "dead"
  /\ callerPc' = [callerPc EXCEPT ![c] = "idle"]
  /\ callerOp' = [callerOp EXCEPT ![c] = "none"]
  /\ UNCHANGED <<active, workerPc, onStopAttr, doneAttr, onStopCalls,
                 afterStopCalls, hookCalls, nStop, nJoin,
                 notThreadVars>>

ThreadNext ==
  \/ start
  \/ RunLoopExit
  \/ RunReturn
  \/ RunRaise
  \/ WorkerOnStop
  \/ \E c \in Callers : CallStop(c)
  \/ \E c \in Callers : StopFlag(c)
  \/ \E c \in Callers : StopOnStop(c)
  \/ \E c \in Callers : StopRebind(c)
  \/ \E c \in Callers : DoneEnter(c)
  \/ \E c \in Callers : DoneRebind(c)
  \/ \E c \in Callers : DoneWait(c)
  \/ \E c \in Callers : DoneAfterStop(c)
  \/ \E c \in Callers : CallJoin(c)
  \/ \E c \in Callers : JoinCheck(c)
  \/ \E c \in Callers : JoinWait(c)

InitThread == ThreadInit /\ TicketIdle /\ BanIdle /\ FailIdle /\ SrvIdle /\ OptIdle /\ IpIdle /\ SetIdle /\ DnsIdle /\ FileIdle /\ CopyIdle /\ ObjIdle /\ ThreadsIdle

SpecThread == InitThread /\ [][ThreadNext]_vars

InitTicket == TicketInit /\ ThreadInit /\ BanIdle /\ FailIdle /\ SrvIdle /\ OptIdle /\ IpIdle /\ SetIdle /\ DnsIdle /\ FileIdle /\ CopyIdle /\ ObjIdle /\ ThreadsIdle

SpecTicket == InitTicket /\ [][TicketNext]_vars

InitTicketEq == TicketEqInit /\ ThreadInit /\ BanIdle /\ FailIdle /\ SrvIdle /\ OptIdle /\ IpIdle /\ SetIdle /\ DnsIdle /\ FileIdle /\ CopyIdle /\ ObjIdle /\ ThreadsIdle

InitBan == BanInit /\ ThreadInit /\ TicketIdle /\ FailIdle /\ SrvIdle /\ OptIdle /\ IpIdle /\ SetIdle /\ DnsIdle /\ FileIdle /\ CopyIdle /\ ObjIdle /\ ThreadsIdle

SpecBan == InitBan /\ [][BanNext]_vars

SpecTicketEq == InitTicketEq /\ [][TicketEqNext]_vars

InitFail == FailInit /\ ThreadInit /\ TicketIdle /\ BanIdle /\ SrvIdle /\ OptIdle /\ IpIdle /\ SetIdle /\ DnsIdle /\ FileIdle /\ CopyIdle /\ ObjIdle /\ ThreadsIdle

SpecFail == InitFail /\ [][FailNext]_vars

InitSrv == SrvInit /\ ThreadInit /\ TicketIdle /\ BanIdle /\ FailIdle /\ OptIdle /\ IpIdle /\ SetIdle /\ DnsIdle /\ FileIdle /\ CopyIdle /\ ObjIdle /\ ThreadsIdle

SpecSrv == InitSrv /\ [][SrvNext]_vars

InitOpt == OptInit /\ ThreadInit /\ TicketIdle /\ BanIdle /\ FailIdle /\ SrvIdle /\ IpIdle /\ SetIdle /\ DnsIdle /\ FileIdle /\ CopyIdle /\ ObjIdle /\ ThreadsIdle

SpecOpt == InitOpt /\ [][OptNext]_vars

InitIp == IpInit /\ ThreadInit /\ TicketIdle /\ BanIdle /\ FailIdle /\ SrvIdle /\ OptIdle /\ SetIdle /\ DnsIdle /\ FileIdle /\ CopyIdle /\ ObjIdle /\ ThreadsIdle

SpecIp == InitIp /\ [][IpNext]_vars

InitIpRel == IpRelInit /\ ThreadInit /\ TicketIdle /\ BanIdle /\ FailIdle /\ SrvIdle /\ OptIdle /\ SetIdle /\ DnsIdle /\ FileIdle /\ CopyIdle /\ ObjIdle /\ ThreadsIdle

SpecIpRel == InitIpRel /\ [][IpRelNext]_vars

InitSet == SetInit /\ ThreadInit /\ TicketIdle /\ BanIdle /\ FailIdle /\ SrvIdle /\ OptIdle /\ IpIdle /\ DnsIdle /\ FileIdle /\ CopyIdle /\ ObjIdle /\ ThreadsIdle

SpecSet == InitSet /\ [][SetNext]_vars

InitDns == DnsInit /\ ThreadInit /\ TicketIdle /\ BanIdle /\ FailIdle /\ SrvIdle /\ OptIdle /\ IpIdle /\ SetIdle /\ FileIdle /\ CopyIdle /\ ObjIdle /\ ThreadsIdle

SpecDns == InitDns /\ [][DnsNext]_vars

InitFile == FileInit /\ ThreadInit /\ TicketIdle /\ BanIdle /\ FailIdle /\ SrvIdle /\ OptIdle /\ IpIdle /\ SetIdle /\ DnsIdle /\ CopyIdle /\ ObjIdle /\ ThreadsIdle

SpecFile == InitFile /\ [][FileNext]_vars

InitCopy == CopyInit /\ ObjIdle /\ ThreadInit /\ TicketIdle /\ BanIdle /\ FailIdle /\ SrvIdle /\ OptIdle /\ IpIdle /\ SetIdle /\ DnsIdle /\ FileIdle /\ ThreadsIdle

SpecCopy == InitCopy /\ [][CopyNext]_vars

InitObj == ObjInit /\ ThreadsIdle /\ ThreadInit /\ TicketIdle /\ BanIdle /\ FailIdle /\ SrvIdle /\ OptIdle /\ IpIdle /\ SetIdle /\ DnsIdle /\ FileIdle /\ CopyIdle

SpecObj == InitObj /\ [][ObjNext]_vars

InitThreads == DnsInit /\ ThreadsIdle /\ ThreadInit /\ TicketIdle /\ BanIdle /\ FailIdle /\ SrvIdle /\ OptIdle /\ IpIdle /\ SetIdle /\ FileIdle /\ CopyIdle /\ ObjIdle

SpecThreads == InitThreads /\ [][ThreadsNext]_vars

\* no stop() or join() call is in progress
CallersIdle == \A c \in Callers : callerPc[c] = "idle"

Max(x, y) == IF x >= y THEN x ELSE y

\* C2: for a ticket with time t0 and effective ban time T (its own banTime
\* when set, otherwise the default), isTimedOut(t) is true exactly when
\* t > t0 + T for every T >= 0, and false for every t when T = -1.
C2_IsTimedOut ==
  last.op = "isTimedOut" =>
    LET t  == last.args[1]
        t0 == last.pre.time
        T  == IF last.pre.banTime # None THEN Val(last.pre.banTime)
              ELSE Val(last.args[2])
    IN  /\ T >= 0 => (last.res <=> t > t0 + Sec(T))
        /\ T = -1 => last.res = FALSE

\* a query exactly at the end of a ban that is taken from the default
C2_Witness ==
  /\ last.op = "isTimedOut"
  /\ last.pre.banTime = None
  /\ Val(last.args[2]) > 0
  /\ last.args[1] = last.pre.time + Sec(Val(last.args[2]))
  /\ last.res = FALSE

\* C8: setBanCount(v, always=False) never decreases the ban count: after the
\* call getBanCount is the maximum of the previous ban count and v.
C8_BanCountMonotone ==
  (last.op = "setBanCount" /\ last.args[2] = FALSE) =>
    /\ getBanCount(ticketA) >= getBanCount(last.pre)
    /\ getBanCount(ticketA) = Max(getBanCount(last.pre), last.args[1])

\* setBanCount(v, always=False) with v below the current ban count
C8_Witness ==
  /\ last.op = "setBanCount"
  /\ last.args[2] = FALSE
  /\ last.args[1] < getBanCount(last.pre)
  /\ getBanCount(last.pre) > 1

\* C9: two tickets are equal iff their ids are equal, their times agree when
\* rounded to two decimals and their data are equal; banTime, banCount and
\* flags have no influence; a ticket is not equal to a value that is no ticket.
C9_TicketEquality ==
  /\ last.op = "eq" =>
       LET a == Tk(last.args[1])
           b == Tk(last.args[2])
       IN  last.res <=> /\ IPAddrEq(a.id, b.id)
                        /\ Round2(a.time) = Round2(b.time)
                        /\ a.data = b.data
  /\ last.op = "eqOther" => last.res = FALSE

\* equal tickets whose times differ below the rounding and whose banTime,
\* banCount and flags all differ
C9_Witness ==
  /\ last.op = "eq"
  /\ last.res = TRUE
  /\ ticketA.time # ticketB.time
  /\ ticketA.banTime # ticketB.banTime
  /\ ticketA.banCount # ticketB.banCount
  /\ ticketA.flags # ticketB.flags
  /\ last.args[1] # last.args[2]

\* C10: getEndOfBanTime(default) is time + B, where B is the ticket's own
\* banTime when set and the default otherwise, and Ticket.MAX_TIME when
\* B = -1, which is later than every end of ban below MAX_TIME.
C10_EndOfBanTime ==
  last.op = "getEndOfBanTime" =>
    LET B == IF last.pre.banTime # None THEN Val(last.pre.banTime)
             ELSE Val(last.args[1])
    IN  /\ B # -1 => last.res = last.pre.time + Sec(B)
        /\ B = -1 => /\ last.res = Sec(MAX_TIME)
                     /\ \A t \in WholeTimes, d \in (BanTimes \ {None, Some(-1)}) :
                          last.res >
                            getEndOfBanTime(setBanTime(setTime(last.pre, t), d), None)

\* the end of ban of a ticket whose own banTime is permanent, with another default
C10_Witness ==
  /\ last.op = "getEndOfBanTime"
  /\ last.pre.banTime = Some(-1)
  /\ last.args[1] = Some(0)
  /\ last.pre.time > 0

C5_BanIpCount ==
  banLast.op = "banip" =>
    LET named == Range(banLast.args)
        activeBefore ==
          {id \in named :
             /\ id \in DOMAIN banLast.pre
             /\ banLast.now <= getEndOfBanTime(banLast.pre[id], banTime)}
        fresh == named \ activeBefore
    IN  /\ banLast.res = Cardinality(fresh)
        /\ Range(banLast.events) = fresh
        /\ Len(banLast.events) = Cardinality(fresh)
        /\ \A id \in activeBefore : banList[id] = banLast.pre[id]
        /\ \A id \in fresh : id \in DOMAIN banList /\ banList[id].time = banLast.now

\* banip a a b with a and b not banned: the reply is 2
C5_Witness ==
  /\ banLast.op = "banip"
  /\ Len(banLast.args) = 3
  /\ banLast.args[1] = banLast.args[2]
  /\ banLast.args[1] # banLast.args[3]
  /\ banLast.res = 2
  /\ banLast.now > 0

RECURSIVE IsSubSeq(_, _)
IsSubSeq(a, b) ==
  IF a = <<>> THEN TRUE
  ELSE IF b = <<>> THEN FALSE
  ELSE IF Head(a) = Head(b) THEN IsSubSeq(Tail(a), Tail(b))
  ELSE IsSubSeq(a, Tail(b))

\* C7: an add with a name already in the jail map, or with the reserved name
\* --all, returns code 1 and leaves the map as it was; an accepted add appends
\* the jail at the end, a stop keeps the others in their order, status reports
\* the names in that order, and the number of jails is the number of accepted
\* adds minus the number of removed jails.
C7_AddJail ==
  /\ Len(jails) = nAdded - nRemoved
  /\ srvLast.cmd = "add" =>
       /\ (srvLast.args[1] \in Range(NamesOf(srvLast.pre)) \/ srvLast.args[1] = "--all")
            => srvLast.code = 1
       /\ srvLast.code = 1 => jails = srvLast.pre
       /\ srvLast.code = 0 =>
            /\ Len(jails) = Len(srvLast.pre) + 1
            /\ SubSeq(jails, 1, Len(srvLast.pre)) = srvLast.pre
            /\ jails[Len(jails)].name = srvLast.args[1]
  /\ srvLast.cmd = "stop" => IsSubSeq(jails, srvLast.pre)
  /\ srvLast.cmd = "status" =>
       /\ srvLast.value[1] = nAdded - nRemoved
       /\ srvLast.value[2] = NamesOf(jails)
       /\ jails = srvLast.pre

\* a duplicate add is refused while two jails are in the map, after a removal
C7_Witness ==
  /\ srvLast.cmd = "add"
  /\ srvLast.code = 1
  /\ srvLast.args[1] \in Range(NamesOf(srvLast.pre))
  /\ srvLast.args[2] \in ValidBackends
  /\ Len(jails) = 2
  /\ nRemoved >= 1

\* the values an option does not take
IsTimeInterval(v) ==
  /\ v # <<>>
  /\ \A k \in DOMAIN v : v[k].kind = "num" /\ v[k].unit \in {"", "s", "m", "h", "d", "w"}

InvalidFor(opt, v) ==
  CASE opt \in {"findtime", "bantime"} -> ~IsTimeInterval(v)
    [] opt = "maxretry" -> ~(Len(v) = 1 /\ v[1].kind = "num" /\ v[1].unit = "")
    [] opt = "usedns" -> ~(Len(v) = 1 /\ v[1].kind = "word" /\ v[1].w \in UseDnsValues)
    [] opt = "loglevel" -> ~(Len(v) = 1 /\ v[1].kind = "word" /\ v[1].w \in LogLevels)

\* C6 as stated: for every settable option, a set with an invalid value
\* returns code 1 and the get after it replies what the get before it
\* replied.
C6_InvalidSetRejected ==
  (optLast.cmd = "set" /\ InvalidFor(optLast.opt, optLast.arg)) =>
     /\ optLast.code = 1
     /\ GetReply(opts, optLast.opt) = GetReply(optLast.pre, optLast.opt)

\* C6 amended: for every settable option other than usedns, a set with an
\* invalid value returns code 1 and leaves every option as it was; a set of
\* usedns with a value it does not know returns code 0 and the option is "no".
C6_InvalidSetRejectedButUseDns ==
  (optLast.cmd = "set" /\ InvalidFor(optLast.opt, optLast.arg)) =>
     IF optLast.opt = "usedns"
     THEN /\ optLast.code = 0
          /\ optLast.value = Some("no")
          /\ GetReply(opts, "usedns") = <<0, Some("no")>>
     ELSE /\ optLast.code = 1
          /\ opts = optLast.pre
          /\ GetReply(opts, optLast.opt) = GetReply(optLast.pre, optLast.opt)

\* a set of findtime with a word is refused after findtime was set to 30m
C6_Witness ==
  /\ optLast.cmd = "set"
  /\ optLast.opt = "findtime"
  /\ optLast.arg = <<Word("Fish")>>
  /\ optLast.code = 1
  /\ opts.findtime = 30 * 60

\* ---- IPAddr ----
\* the family a host is written for
HostFamily(h) == IF h.kind = "v4" THEN AF_INET ELSE AF_INET6

\* the prefix length the arguments give the address
PrefixOf(args) == IF args.cidr = CIDR_UNSPEC THEN args.ipstr.suffix.n ELSE args.cidr

\* a valid address given with a prefix length within its width, as host/plen
\* or with the cidr argument
HasPrefix(args) ==
  LET t == args.ipstr
  IN  \/ /\ args.cidr = CIDR_UNSPEC
         /\ t.suffix.kind = "plen"
         /\ t.bracket \in {"none", "all"}
         /\ t.host.kind \in {"v4", "v6hex"}
         /\ t.suffix.n <= Width(HostFamily(t.host))
      \/ /\ args.cidr >= 0
         /\ t.suffix = NoSuffix
         /\ t.bracket = "none"
         /\ t.host.kind \in {"v4", "v6hex", "v6dot"}
         /\ args.cidr <= Width(HostFamily(t.host))

\* C11 as stated: every IPAddr built has plen <= 32 when its family is IPv4
\* and plen <= 128 when its family is IPv6 (here W4 and W6).
C11_PlenWithinWidth ==
  (ipLast.op = "new" /\ ~Val(ipLast.a).err) =>
     LET ip == Val(Val(ipLast.a).ip)
     IN  /\ ip.family = AF_INET => ip.plen <= W4
         /\ ip.family = AF_INET6 => ip.plen <= W6

ValidIpStr(args) ==
  /\ args.cidr = CIDR_UNSPEC
  /\ args.ipstr.bracket = "none"
  /\ \/ args.ipstr.suffix = NoSuffix /\ args.ipstr.host.kind \in {"v4", "v6hex", "v6dot"}
     \/ HasPrefix(args)

\* C13 as stated: for every valid ipstr, IPAddr(IPAddr(ipstr).ntoa) equals
\* IPAddr(ipstr): family, addr and plen survive ntoa and parsing again.
C13_RoundTrip ==
  (ipLast.op = "ntoa" /\ ValidIpStr(ipX)) =>
     LET ip   == Val(Val(ipLast.a).ip)
         back == Val(ipLast.b)
     IN  /\ ~back.err
         /\ IPAddrEq(Val(back.ip), ip)
         /\ Val(back.ip).family = ip.family
         /\ Val(back.ip).addr = ip.addr
         /\ Val(back.ip).plen = ip.plen

\* the host is an IPv6 address inside ::ffff:0:0/96
InMapped(h) == h.kind \in {"v6hex", "v6dot"} /\ h.addr \div 2^W4 = MappedPrefix \div 2^W4

\* the arguments denote one IPv6 address: no prefix length, or the full one
DenotesAddress6(args) ==
  LET t == args.ipstr
  IN  \/ args.cidr \in {CIDR_UNSPEC, FAM_IPv6} /\ t.suffix = NoSuffix
         /\ (t.bracket = "none" \/ args.cidr = CIDR_UNSPEC)
      \/ args.cidr = CIDR_UNSPEC /\ t.suffix = PlenSuffix(W6) /\ t.bracket = "none"
         /\ t.host.kind = "v6hex"
      \/ args.cidr = W6 /\ t.suffix = NoSuffix /\ t.bracket = "none"

\* C18 as stated: every IPAddr built from an input denoting an IPv6 address
\* inside ::ffff:0:0/96 has family IPv4, addr the low 32 bits and plen 32, and
\* equals the IPAddr of the dotted IPv4 string.
C18_MappedIsIPv4 ==
  (ipLast.op = "new" /\ InMapped(ipX.ipstr.host) /\ DenotesAddress6(ipX)) =>
     LET r   == Val(ipLast.a)
         low == ipX.ipstr.host.addr % 2^W4
     IN  /\ ~r.err
         /\ Val(r.ip).family = AF_INET
         /\ Val(r.ip).addr = low
         /\ Val(r.ip).plen = W4
         /\ IPAddrEq(Val(r.ip), Val(IPAddr(Plain(Host("v4", low)), CIDR_UNSPEC).ip))

\* the mask is k one bits followed by zero bits, within the width w
IsMaskOf(m, w, k) == m = Ones(w) - Ones(w - k)

\* C19 as stated: an address with a mask in address form is accepted if and
\* only if the mask, within its own family width, is one bits followed by
\* zero bits, and then plen is the number of one bits; for any other mask the
\* construction fails and no IPAddr of the string is produced or cached.
C19_MaskParsing ==
  (/\ ipLast.op = "new"
   /\ ipX.cidr = CIDR_UNSPEC
   /\ ipX.ipstr.bracket = "none"
   /\ ipX.ipstr.suffix.kind = "mask"
   /\ ipX.ipstr.host.kind \in {"v4", "v6hex"}
   /\ Val(ipX.ipstr.suffix.mask).kind \in {"v4", "v6hex"}) =>
     LET r    == Val(ipLast.a)
         mask == Val(ipX.ipstr.suffix.mask)
         w    == Width(HostFamily(mask))
     IN  /\ ~r.err <=> \E k \in 0..w : IsMaskOf(mask.addr, w, k)
         /\ ~r.err => IsMaskOf(mask.addr, w, Val(r.ip).plen)
         /\ r.err => /\ r.ip = None
                     /\ \A key \in r.cached : key[1] = Plain(mask)

\* the two operands are addresses or networks of IPv4 or IPv6
BothIP == /\ Val(ipLast.a).family \in {AF_INET, AF_INET6}
          /\ Val(ipLast.b).family \in {AF_INET, AF_INET6}

C15_RawIdEquality ==
  (ipLast.op = "eq" /\ Val(ipLast.a).family = CIDR_RAW) =>
     /\ Val(ipLast.b).family = CIDR_RAW =>
          (Val(ipLast.res) <=> Val(ipLast.a).raw = Val(ipLast.b).raw)
     /\ Val(ipLast.b).family # CIDR_RAW => ~Val(ipLast.res)

\* C16: two valid IPAddr are equal if and only if family, addr and plen are
\* equal; two unparseable ones if and only if their raw strings are equal; a
\* valid and an unparseable one never; and a != b is the opposite of a == b.
C16_Equality ==
  (ipLast.op \in {"eq", "ne"}) =>
     LET a  == Val(ipLast.a)
         b  == Val(ipLast.b)
         eq == IF ipLast.op = "eq" THEN Val(ipLast.res) ELSE ~Val(ipLast.res)
     IN  /\ (isValid(a) /\ isValid(b)) =>
              (eq <=> (a.family = b.family /\ a.addr = b.addr /\ a.plen = b.plen))
         /\ (~isValid(a) /\ ~isValid(b)) => (eq <=> a.raw = b.raw)
         /\ (isValid(a) # isValid(b)) => ~eq
         /\ ipLast.op = "ne" => (Val(ipLast.res) <=> ~Val(ipLast.rev))

\* a network and a shorter network of the same address are not equal
C16_Witness ==
  /\ ipLast.op = "ne"
  /\ Val(ipLast.res)
  /\ Val(ipLast.a).family = AF_INET6
  /\ Val(ipLast.b).family = AF_INET6
  /\ Val(ipLast.a).addr = Val(ipLast.b).addr
  /\ Val(ipLast.a).plen # Val(ipLast.b).plen

\* C17 as stated: a < b if and only if a.family < b.family, or the families
\* are equal and a.addr < b.addr; so a < b and b < a never both hold.
C17_OrderOnFamilyAddr ==
  (ipLast.op = "lt") =>
     LET a == Val(ipLast.a)
         b == Val(ipLast.b)
     IN  /\ Val(ipLast.res) <=>
              (a.family < b.family \/ (a.family = b.family /\ a.addr < b.addr))
         /\ ~(Val(ipLast.res) /\ Val(ipLast.rev))

\* C20 as stated: after any sequence of constructor, set(), add() and
\* in-place union, ip in S is true if and only if ip equals an element of S
\* or a subnet element of S contains ip, and hasSubNet is nonzero whenever S
\* holds a subnet.
C20_SetMembership ==
  /\ (\E n \in ipSet : ~isSingle(n)) => hasSubNet # 0
  /\ setLast.op = "in" =>
       LET ip == ToIPAddr(setLast.args[1])
       IN  Val(setLast.res) <=>
             \/ \E e \in ipSet : IPAddrEq(e, ip)
             \/ \E n \in ipSet : ~isSingle(n) /\ contains(n, ip)

\* ---- JailThread: stop, join and the except hook ----
\* a stop() of a started thread has returned and no call is in progress
StoppedOnce == nStop >= 1 /\ CallersIdle /\ active = "False"

\* C25: once a first stop() of a started thread has returned, every further
\* stop() leaves the state as it is: active stays False and neither the
\* cleanup of onStop nor afterStop is executed again.
C25_StopIdempotent ==
  \A k \in 0..(MaxCalls + 1), j \in 0..MaxCalls :
    [](StoppedOnce /\ onStopCalls = k /\ afterStopCalls = j
         => [](/\ active = "False"
               /\ onStopCalls = k
               /\ afterStopCalls = j
               /\ onStopAttr = "noop"
               /\ doneAttr = "noop"))

\* a second stop() has returned
C25_Witness ==
  /\ StoppedOnce
  /\ nStop = 2
  /\ nJoin = 0
  /\ workerPc = "run"
  /\ onStopCalls = 1
  /\ afterStopCalls = 1

\* The steps of a stop() or join() in progress in calling thread c.  The
\* calling thread is scheduled; Thread.join() returns once the worker has ended.
CallerStep(c) ==
  \/ StopFlag(c)
  \/ StopOnStop(c)
  \/ StopRebind(c)
  \/ DoneEnter(c)
  \/ DoneRebind(c)
  \/ DoneWait(c)
  \/ DoneAfterStop(c)
  \/ JoinCheck(c)
  \/ JoinWait(c)

\* Calling threads make progress and the cleanup of onStop finishes; nothing
\* is assumed about run, which may go on for ever.
SpecThreadCallers ==
  /\ InitThread
  /\ [][ThreadNext]_vars
  /\ \A c \in Callers : WF_vars(CallerStep(c))
  /\ WF_vars(WorkerOnStop)

\* The run loop tests the flag on every iteration and the worker is
\* scheduled: it leaves the loop once the flag is False.
SpecThreadFair ==
  /\ InitThread
  /\ [][ThreadNext]_vars
  /\ \A c \in Callers : WF_vars(CallerStep(c))
  /\ WF_vars(WorkerOnStop)
  /\ WF_vars(RunLoopExit)

\* C26: when run raises, the exception is handed to the except hook exactly
\* once and does not leave the worker, which ends; a join() on that thread
\* returns.
C26_ExceptHookOnce ==
  /\ [][(workerPc = "run" /\ workerPc' = "dead") => hookCalls' = hookCalls + 1]_vars
  /\ [](hookCalls <= 1 /\ (hookCalls = 1 => workerPc = "dead"))
  /\ \A c \in Callers :
       (hookCalls = 1 /\ callerOp[c] = "join") ~> (callerOp[c] = "none")

\* run has raised and a join() has returned, no stop() was called
C26_Witness ==
  /\ hookCalls = 1
  /\ workerPc = "dead"
  /\ nJoin >= 1
  /\ nStop = 0
  /\ CallersIdle

\* C27: once the worker of a started thread has ended, the cleanup of onStop
\* has been executed, whether run returned or raised and without any stop().
C27_WorkerRunsCleanup == workerPc = "dead" => onStopCalls >= 1

\* every stop() returns, whatever the worker does
StopReturns == \A c \in Callers : (callerOp[c] = "stop") ~> (callerOp[c] = "none")

\* thread c enters join() after a stop() has returned, the worker still in run
JoinAfterStop(c) ==
  /\ callerOp[c] = "join"
  /\ callerPc[c] = "done_enter"
  /\ nStop >= 1
  /\ \A d \in Callers \ {c} : callerPc[d] = "idle"
  /\ active = "False"
  /\ workerPc = "run"

\* C29: stop() returns even when the worker never leaves run, and so does a
\* join() issued after a stop() on such a thread.
C29_StopAndJoinBounded ==
  /\ StopReturns
  /\ \A c \in Callers : JoinAfterStop(c) ~> (callerOp[c] = "none")

\* C30: for a started thread whose run loop tests the flag: a stop() sets the
\* flag to False, it stays False, the worker eventually ends, and a join()
\* then returns.
C30_StopLiveness ==
  /\ [][\A c \in Callers :
          (callerPc[c] = "stop_flag" /\ callerPc'[c] # "stop_flag" /\ active = "True")
            => active' = "False"]_vars
  /\ [][active = "False" => active' = "False"]_vars
  /\ (active = "False") ~> (workerPc = "dead")
  /\ \A c \in Callers :
       (callerOp[c] = "join" /\ active = "False") ~> (callerOp[c] = "none")

\* the worker left the loop after a stop() and a join() has returned
C30_Witness ==
  /\ active = "False"
  /\ workerPc = "dead"
  /\ hookCalls = 0
  /\ nStop >= 1
  /\ nJoin >= 1
  /\ CallersIdle

\* C28: no FailTicket held by the fail manager has retry < 1, also after an
\* addFailure in which adjustTime scaled retry down by the rate estimation
\* (possibly to 0) before inc raised it.
C28_RetryAtLeastOne ==
  \A id \in DOMAIN failList : getRetry(failList[id]) >= 1

\* an entry with two single failures merged, of which the rate estimation
\* over an interval longer than findTime left 0 before the second was added
C28_Witness ==
  \E id \in DOMAIN failList :
    /\ delivered[id] = 2
    /\ returned[id] = 0
    /\ allSingle[id]
    /\ failList[id].firstTime < failList[id].time
    /\ getRetry(failList[id]) = 1

\* ---- DNSUtils ----
\* IPv6 is not allowed: the setting is off, or it is auto and the detection
\* has answered off
IPv6NotAllowed ==
  \/ IPv6Attr = Some(FALSE)
  \/ (IPv6Attr = None /\ CACHE_nameToIp.ipv6 = Some(FALSE))

\* C22: every address dnsToIp returns is valid, and in a state in which IPv6
\* is not allowed every address it returns is IPv4, whatever was called
\* before.
C22_IPv4OnlyUnlessAllowed ==
  dnsLast.op = "dnsToIp" =>
    /\ \A ip \in dnsLast.ips : isValid(ip)
    /\ IPv6NotAllowed => \A ip \in dnsLast.ips : isIPv4(ip)

\* searchIP finds an address in the text and IPAddr accepts it
FoundLiteral(text) ==
  /\ searchIP(text) # None
  /\ isValid(Val(IPAddr(Val(searchIP(text)), CIDR_UNSPEC).ip))

\* the text is an IP address: inet_pton accepts it for one of the families
ValidLiteral(text) ==
  \/ inet_pton(AF_INET, text) # None
  \/ inet_pton(AF_INET6, text) # None

\* C23: textToIp calls dnsToIp only if it found no valid literal IP in the
\* text and useDns is yes or warn; with useDns = no there is no lookup and the
\* result holds at most the literal IP; for a text that is a valid literal IP
\* the result is exactly that IP, whatever useDns is.
C23_LookupOnlyWithoutLiteral ==
  dnsLast.op = "textToIp" =>
    /\ dnsLast.looked => (dnsLast.useDns \in {"yes", "warn"} /\ ~FoundLiteral(dnsLast.text))
    /\ dnsLast.useDns = "no" =>
         /\ ~dnsLast.looked
         /\ Cardinality(dnsLast.ips) <= 1
         /\ \A ip \in dnsLast.ips : IPAddrEq(ip, ToIPAddr(dnsLast.text))
    /\ ValidLiteral(dnsLast.text) =>
         /\ Cardinality(dnsLast.ips) = 1
         /\ \A ip \in dnsLast.ips : IPAddrEq(ip, ToIPAddr(dnsLast.text))

\* C24: with the setting yes IPv6IsAllowed() answers true and with no false,
\* whatever the host and the cache say; with auto the answer is the cached
\* one if there is one, without a new detection, and else it is detected (by
\* the capability of the system, else by the interface addresses) and cached;
\* with auto the setting is auto again when the call ends, returning or
\* raising.
C24_TriState ==
  dnsLast.op = "IPv6IsAllowed" =>
    /\ dnsLast.attr # None => (dnsLast.ans = dnsLast.attr /\ ~dnsLast.detected)
    /\ dnsLast.attr = None =>
         /\ IPv6Attr = None
         /\ dnsLast.cached # None => (dnsLast.ans = dnsLast.cached /\ ~dnsLast.detected)
         /\ (dnsLast.cached = None /\ ~dnsLast.raised) =>
              /\ dnsLast.detected
              /\ dnsLast.ans # None
              /\ CACHE_nameToIp.ipv6 = dnsLast.ans
              /\ dnsEnv.sys # None => dnsLast.ans = dnsEnv.sys
              /\ (dnsEnv.sys = None /\ dnsEnv.intrf # {}) =>
                   dnsLast.ans = Some(\E ip \in dnsEnv.intrf : isIPv6(ip))

\* the setting is no, the cache holds a detected yes, and the answer is no
C24_Witness ==
  /\ dnsLast.op = "IPv6IsAllowed"
  /\ dnsLast.attr = Some(FALSE)
  /\ dnsLast.cached = Some(TRUE)
  /\ dnsLast.ans = Some(FALSE)
  /\ dnsEnv.sys = None

\* ---- FileIPAddrSet ----
\* C21: the constructor does not touch the file; the first membership query
\* stats and loads it; any two consecutive stats are more than
\* maxUpdateLatency apart; the contents are read only when the stats differ
\* from the last stats seen or the reload is forced.
C21_FilePolling ==
  /\ fileLast.op = "init" =>
       (~fileLast.statted /\ ~fileLast.read /\ fileSet.ips = {} /\ fileHist.lastStat = None)
  /\ (fileLast.op = "contains" /\ fileLast.first /\ fileLast.existed /\ fileLast.readable) =>
       /\ fileLast.statted
       /\ fileLast.read
       /\ fileSet.ips = _list2set(FileIps(fileLast.diskStats)).ips
  /\ (fileLast.statted /\ fileLast.prevStat # None) =>
       fileLast.at - Val(fileLast.prevStat) > maxUpdateLatency
  /\ fileLast.read =>
       (fileLast.forced \/ (fileLast.statted /\ fileLast.prevStats # Some(fileLast.diskStats)))

\* a later membership query stat'ed the unchanged file and did not read it
C21_Witness ==
  /\ fileLast.op = "contains"
  /\ fileLast.statted
  /\ ~fileLast.read
  /\ fileLast.prevStat # None
  /\ fileLast.existed
  /\ fileLast.readable
  /\ fileSet.ips # {}

\* ---- JailThread: afterStop ----
\* C33: whatever stop() and join() calls are made and however they
\* interleave, afterStop is executed at most once, and it has been executed
\* exactly once when calls were made and all of them have returned.
C33_AfterStopOnce ==
  /\ afterStopCalls <= 1
  /\ (nStop + nJoin >= 1 /\ CallersIdle) => afterStopCalls = 1

\* ---- FailTicket: adjustTime, copy construction ----
\* the object named i as it was before the last operation
CpPre(i) == Val(cpLast.pre[i])

\* the other of the two objects
CpOther(i) == IF i = "src" THEN "copy" ELSE "src"

\* C32: adjustTime(t, maxTime) changes nothing when t <= the ticket's time;
\* when t > the ticket's time, the time becomes t, the first time is then
\* >= t - maxTime and is left alone if it was already, and retry does not go
\* up.
C32_AdjustTime ==
  cpLast.op = "adjustTime" =>
    IF cpLast.at <= CpPre(cpLast.on).time
    THEN /\ CpObj(cpLast.on).time = CpPre(cpLast.on).time
         /\ CpObj(cpLast.on).firstTime = CpPre(cpLast.on).firstTime
         /\ CpObj(cpLast.on).retry = CpPre(cpLast.on).retry
    ELSE /\ CpObj(cpLast.on).time = cpLast.at
         /\ CpObj(cpLast.on).firstTime >= cpLast.at - Sec(cpLast.maxTime)
         /\ CpPre(cpLast.on).firstTime >= cpLast.at - Sec(cpLast.maxTime)
              => CpObj(cpLast.on).firstTime = CpPre(cpLast.on).firstTime
         /\ CpObj(cpLast.on).retry <= CpPre(cpLast.on).retry

\* C36: a FailTicket made with ticket=src has the id, time, flags, banTime,
\* banCount and data of src; made of a FailTicket it also has its retry and
\* its first time, made of a plain Ticket its first time is the time given
\* (or the copied time) and its retry the copied failures.
C36_CopyConstruction ==
  cpLast.op = "copy" =>
    /\ CpObj("copy").id = cpSrc.id
    /\ CpObj("copy").time = cpSrc.time
    /\ CpObj("copy").flags = cpSrc.flags
    /\ CpObj("copy").banTime = cpSrc.banTime
    /\ CpObj("copy").banCount = cpSrc.banCount
    /\ CpObj("copy").data = cpSrc.data
    /\ IF isFailTicket(cpSrc)
       THEN /\ CpObj("copy").retry = cpSrc.retry
            /\ CpObj("copy").firstTime = cpSrc.firstTime
       ELSE /\ CpObj("copy").firstTime =
                 IF cpLast.time # None THEN Val(cpLast.time) ELSE cpSrc.time
            /\ CpObj("copy").retry = cpSrc.data.failures

\* the operations of C37 that act on one of the two tickets
CopyMutators == {"setAttempt", "setMatches", "setRetry", "inc", "setData"}

\* C37: after the copy was made, no setAttempt, setMatches, setRetry, inc or
\* setData(key, value) on one of the two tickets changes the attempts, the
\* matches or the data of the other.
C37_CopiesIndependent ==
  (cpLast.op \in CopyMutators /\ cpLast.pre.copy # None) =>
    CpObj(CpOther(cpLast.on)).data = CpPre(CpOther(cpLast.on)).data

\* ---- IPAddr: the instance cache ----
\* C31: no raw value is in the cache, and IPAddr(ipstr, cidr) returns (or
\* raises) what it does on an empty cache, whatever earlier calls and
\* expiries have left in the cache.
C31_CacheTransparent ==
  /\ \A e \in CACHE_OBJ : e.cidr # CIDR_RAW /\ e.ip.family # CIDR_RAW
  /\ objLast.op = "new" =>
       /\ objLast.err = IPAddr(objLast.args.ipstr, objLast.args.cidr).err
       /\ objLast.ip = IPAddr(objLast.args.ipstr, objLast.args.cidr).ip

\* a string with a mask is answered from the cache, by the entry that a
\* call with the prefix length as cidr has left there
C31_Witness ==
  /\ objLast.op = "new"
  /\ objLast.hit
  /\ objLast.args.ipstr.suffix.kind = "mask"
  /\ objLast.args.cidr = CIDR_UNSPEC
  /\ Val(objLast.ip).plen = 1
  /\ \E e \in CACHE_OBJ : e.ip.family = AF_UNSPEC


\* ---- DNSUtils: the explicit IPv6 setting under concurrency ----
\* the last setIPv6IsAllowed switched IPv6 on or off
V6Explicitly(value) == value \in {"yes", "no"}

\* C34: an explicit setting made with setIPv6IsAllowed(on or off) stays in
\* force until the next setIPv6IsAllowed: no IPv6IsAllowed() call, concurrent
\* or later, changes the stored setting, and every IPv6IsAllowed() call that
\* started after the setting call returned returns the set value.
C34_SettingInForce ==
  /\ V6Explicitly(v6Explicit) => IPv6Attr = AllowIPv6Attr(v6Explicit)
  /\ V6Explicitly(v6Ret.under) => v6Ret.res = AllowIPv6Attr(v6Ret.under)


\* ---- FileIPAddrSet: a load that fails ----
\* C35: a load that fails (file missing or unreadable) leaves the members of
\* the set as they were, does not raise when noError is true and postpones
\* the next check; once the file can be read again, a membership query that
\* checks the file leaves the set with the file's current content, also when
\* the file has not changed in the meantime.
C35_ErrorRecovery ==
  /\ fileLast.failed =>
       /\ fileSet.ips = fileLast.prevIps
       /\ fileLast.noError => ~fileLast.raised
       /\ fileSet._nextCheck >= fileLast.at + ErrorLatency
  /\ (fileLast.op = "contains" /\ fileLast.statted /\ fileLast.existed /\ fileLast.readable) =>
       fileSet.ips = _list2set(FileIps(fileLast.diskStats)).ips


\* ---- IPAddr: __eq__ and __hash__ ----
\* the two values of the last operation, and whether they are equal
IpA == Val(ipLast.a)
IpB == Val(ipLast.b)

\* C38: for all IPAddr values a and b (valid, unparseable or raw), a == b
\* implies hash(a) == hash(b), and b is then found by the direct lookup of a
\* set that holds a.
C38_HashConsistent ==
  (ipLast.op = "hash" /\ IPAddrEq(IpA, IpB)) => (Val(ipLast.res) /\ Val(ipLast.rev))

====
